---- MODULE Spec2Model ----
(***************************************************************************)
(* A model of the gnuplot process communication engine:                    *)
(*   - GnuplotProcess.send   (src/newplot/process.py)                      *)
(*   - _GnuplotOutputReader  (src/newplot/process.py)                      *)
(*   - Future / Event        (src/gnuplotting/multithreading.py)           *)
(*   - LockedGenerator       (src/gnuplotting/utils.py)                    *)
(*   - parseError            (src/gnuplotting/errors.py)                   *)
(* Text is modelled as sequences of characters (strings of length one or   *)
(* short fixed chunks); the streams between the program and the gnuplot    *)
(* subprocess are sequences of lines (stdin) and of characters (stdout).   *)
(***************************************************************************)
EXTENDS Integers, Sequences, FiniteSets, TLC

\* ------------------------------------------------------------------ bounds
\* Total number of send calls started over a run.
MaxCalls == 2

\* ------------------------------------------------------- program constants
\* GnuplotContext.NO_WAIT = float(), that is the number 0.0
NO_WAIT == 0
\* The instance id: first value of GnuplotProcess.__uniqueId, count(1, 1)
InstanceId == 1
\* First value of the per-instance command id generator, count(0, 1)
FirstCmdId == 0

\* Python's None as a timeout value (not a number)
None == -100
\* The default value of the `timeout` parameter of send: -1
DefaultArg == -1
\* A timeout that is neither None nor a number, such as a string
NotANumber == -200

\* The calling threads
Threads == {"a", "b"}

\* os.linesep
NL == "\n"

\* ---------------------------------------------------------- python strings
Max(x, y) == IF x > y THEN x ELSE y
Min(x, y) == IF x < y THEN x ELSE y

\* s[a:b] with Python's treatment of negative and out-of-range indices
PyIndex(n, i) == IF i < 0 THEN Max(n + i, 0) ELSE Min(i, n)
PySlice(s, a, b) == SubSeq(s, PyIndex(Len(s), a) + 1, PyIndex(Len(s), b))

\* s.endswith(t)
EndsWith(s, t) ==
    /\ Len(t) <= Len(s)
    /\ SubSeq(s, Len(s) - Len(t) + 1, Len(s)) = t

\* t occurs in s at 0-based offset i
OccursAt(s, t, i) ==
    /\ i >= 0
    /\ i + Len(t) <= Len(s)
    /\ SubSeq(s, i + 1, i + Len(t)) = t

\* s.find(t): the lowest 0-based offset of t in s, or -1
Find(s, t) ==
    LET hits == {i \in 0..Len(s) : OccursAt(s, t, i)}
    IN  IF hits = {} THEN -1
        ELSE CHOOSE i \in hits : \A j \in hits : i <= j

\* str(k) for a natural number
Digits == <<"0", "1", "2", "3", "4", "5", "6", "7", "8", "9">>
RECURSIVE Str(_)
Str(k) == IF k < 10 THEN Digits[k + 1]
          ELSE Str(k \div 10) \o Digits[(k % 10) + 1]

\* --------------------------------------------------------------- the wire
\* GnuplotProcess.__BEGIN_TOKEN_FORMAT and __DONE_TOKEN_FORMAT. A token is
\* one character of the model: the streams carry it whole, and the line
\* separator that follows it is a character of its own.
BeginToken(id, cmd_id) == <<"<newplot-" \o Str(id) \o "-" \o Str(cmd_id) \o ">">>
DoneToken(id, cmd_id) == <<"<newplot-" \o Str(id) \o "-" \o Str(cmd_id) \o "-done>">>

\* GnuplotProcess.PRINTERR: "printerr '%s'" % token, as a line of stdin
PRINTERR(token) == [op |-> "printerr", arg |-> token]
\* A caller supplied line
Cmd(name) == [op |-> "cmd", arg |-> <<name>>]

\* The batches a caller may send (one command line each)
Batches == {<<Cmd("set")>>, <<Cmd("print p")>>, <<Cmd("bogus")>>}

\* The (lines, timeout) arguments a caller may pass to send
Inputs == {<<<<Cmd("set")>>, 5>>, <<<<Cmd("print p")>>, 5>>, <<<<Cmd("bogus")>>, 5>>,
           <<<<Cmd("set")>>, NO_WAIT>>, <<<<Cmd("print p")>>, DefaultArg>>}

\* The chunk "gnuplot> <cmd>\n    ^\n" that opens gnuplot's error report and
\* the chunk "    line 0: invalid command" that follows it
Commands == {b[1].arg[1] : b \in Batches}
ReportHead(name) == "gnuplot> " \o name
ReportLine == " line 0: invalid command"

\* What the gnuplot subprocess prints on its combined output for one line
GnuplotOutput(line) ==
    CASE line.op = "printerr"      -> line.arg \o <<NL>>
      [] line.arg = <<"set">>      -> <<>>
      [] line.arg = <<"print p">>  -> <<"p", NL>>
      [] OTHER -> <<ReportHead(line.arg[1]), ReportLine, NL, NL>>

\* ------------------------------------------------------------- parseError
\* errors.ERROR_PATTERNS[0], searched in `output`: the (optional) report
\* head, then the "line N: msg" chunk, then at least one white space that
\* ends a line ($ under re.M: the end of the text or just before a newline).
ErrorAt(output, i) ==
    /\ i >= 1
    /\ i + 1 <= Len(output)
    /\ output[i] = ReportLine
    /\ output[i + 1] = NL
    /\ (i + 1 = Len(output) \/ output[i + 2] = NL)

NoError == [found |-> FALSE, cmd |-> "", line |-> -1, msg |-> ""]

parseError(output) ==
    LET hits == {i \in 1..Len(output) : ErrorAt(output, i)}
    IN  IF hits = {} THEN NoError
        ELSE LET i == CHOOSE h \in hits : \A j \in hits : h <= j
             IN  [found |-> TRUE,
                  cmd   |-> IF i > 1 /\ \E n \in Commands : output[i - 1] = ReportHead(n)
                            THEN CHOOSE n \in Commands : output[i - 1] = ReportHead(n)
                            ELSE "None",
                  line  |-> 0,
                  msg   |-> "invalid command"]

\* ------------------------------------------------------------------ state
VARIABLES
    pc,          \* where each calling thread is in send
    call,        \* the local variables of each thread's current send
    ret,         \* how each thread's last send ended
    ncalls,      \* number of send calls started so far
    counter,     \* next value of itertools.count(0, 1) under __genCmdId
    genRunning,  \* the generator of LockedGenerator is executing its body
    wire,        \* every line written to the subprocess stdin, in order
    stdout,      \* characters the subprocess has printed and nobody has read
    futures,     \* the Future objects, by request number
    requests,    \* _GnuplotOutputReader.__requests (queue.Queue)
    doing,       \* _GnuplotOutputReader.__doing
    stopFlag,    \* _GnuplotOutputReader.__stop
    wpc,         \* where the reader thread is in __run
    wreq,        \* the request the reader thread holds
    buff,        \* `buff` of __consumeUntilDone
    spc,         \* where the thread that calls _GnuplotOutputReader.stop is
    eof,         \* the subprocess has closed its output stream
    stopAt,      \* number of requests submitted when stop was called, or -1
    ipc,         \* where the thread that invokes the Future is in Future.__call
    iarg,        \* the argument of the current invocation
    runs,        \* number of times the wrapped task has been entered
    ninv,        \* number of invocations of the Future started
    nraised,     \* number of invocations that raised FutureStateError
    firstArg,    \* the argument of the first invocation
    naborts,     \* number of calls of Future.abort
    tpc,         \* where the thread that calls terminate is
    nterm,       \* number of calls of terminate started
    outcomes,    \* how each call of terminate ended, in order
    log,         \* what stop did to the streams, the reader and the subprocess
    backend,     \* the subprocess: "running" or "exited"
    stdinClosed, \* self.__stdin is closed
    stdoutClosed,\* self.__stdout is closed
    names,       \* number of entries of the vars and funs namespaces
    csync,       \* the `sync` argument of each thread's current send
    slept,       \* the calls of time.sleep made by wait: call and seconds
    given,       \* the output handed to one read: text before and between the tokens
    wt,          \* the local variables of the thread that is in wait(evts, timeout)
    bound,       \* the triggers registered in the subprocess: event -> token
    fires,       \* number of events that have fired, and what they printed
    clock,       \* the time, in seconds
    invoker      \* where each thread that invokes the one Future is, and the
                 \* number of assignments of its result

vars == <<pc, call, ret, ncalls, counter, genRunning, wire, stdout,
          futures, requests, doing, stopFlag, wpc, wreq, buff,
          spc, eof, stopAt,
          ipc, iarg, runs, ninv, nraised, firstArg, naborts,
          tpc, nterm, outcomes, log, backend, stdinClosed, stdoutClosed, names,
          csync, slept,
          given, wt, bound, fires, clock, invoker>>

callerVars == <<pc, call, ret, ncalls>>
genVars == <<counter, genRunning>>
pipeVars == <<wire, stdout>>
readerVars == <<requests, doing, stopFlag, wpc, wreq, buff>>
stopVars == <<spc, eof, stopAt>>
\* What the actions of send and of the reader thread never touch
unitVars == <<ipc, iarg, runs, ninv, nraised, firstArg, naborts>>
procVars == <<tpc, nterm, outcomes, log, backend, stdinClosed, stdoutClosed, names>>
argVars == <<csync, slept>>
cutVars == <<given>>
waitVars == <<wt, bound, fires, clock>>
raceVars == <<invoker>>
restVars == <<stopVars, unitVars, procVars, argVars, cutVars, waitVars, raceVars>>
\* What the actions about _GnuplotOutputReader.stop never touch
outsideStop == <<unitVars, procVars, argVars, cutVars, waitVars, raceVars>>
\* What the actions about one Future never touch
outsideUnit == <<genVars, pipeVars, readerVars, stopVars, procVars, argVars,
                 cutVars, waitVars, raceVars>>
\* What the actions of GnuplotProcess.terminate never touch
outsideProc == <<callerVars, genRunning, stdout, wpc, wreq, buff, stopVars, unitVars,
                 argVars, cutVars, waitVars, raceVars>>
\* What the actions that check the arguments of send and wait never touch
outsideArg == <<stopVars, unitVars, procVars, cutVars, waitVars, raceVars>>
\* What the actions of concurrent invocations of one Future never touch
outsideRace == <<genVars, pipeVars, readerVars, stopVars, procVars, argVars,
                 cutVars, waitVars>>

\* Python values that are a str or None
PyNone == [t |-> "None", s |-> <<>>]
PyStr(s) == [t |-> "str", s |-> s]

NoCall == [id |-> 0, lines |-> <<>>, timeout |-> None, cmd_id |-> -1,
           i |-> 0, fut |-> 0]
NoRet == [kind |-> "none", id |-> 0, value |-> PyNone, unsync |-> <<>>,
          cause |-> <<>>, timeout |-> None, line |-> -1, msg |-> ""]
NoRequest == [fut |-> 0, begin |-> <<>>, done |-> <<>>]
NewFuture == [abort |-> FALSE, done |-> FALSE, called |-> FALSE,
              hasResult |-> FALSE, unsync |-> <<>>, result |-> <<>>,
              sawDone |-> FALSE]

\* The events a window of the subprocess can fire
Events == {"e1", "e2"}
\* The frame of a thread that is not in wait
NoWait == [pc |-> "idle", evts |-> <<>>, k |-> 0, evt_id |-> -1, fut |-> 0,
           start |-> 0, exc |-> "none", gen |-> FALSE, seen |-> 0,
           timedK |-> 0, tclock |-> 0]

\* No thread is invoking the Future
NoInvoker == [at |-> [t \in Threads |-> "idle"],
              arg |-> [t \in Threads |-> ""],
              stores |-> 0]

\* GnuplotProcess.__init__ with defaultTimeout=None: the streams are open,
\* the generators are fresh and the reader thread has been started.
defaultTimeout == None

Init ==
    /\ pc = [t \in Threads |-> "idle"]
    /\ call = [t \in Threads |-> NoCall]
    /\ ret = [t \in Threads |-> NoRet]
    /\ ncalls = 0
    /\ counter = FirstCmdId
    /\ genRunning = FALSE
    /\ wire = <<>>
    /\ stdout = <<>>
    /\ futures = <<>>
    /\ requests = <<>>
    /\ doing = {}
    /\ stopFlag = FALSE
    /\ wpc = "loop"
    /\ wreq = NoRequest
    /\ buff = <<>>
    /\ spc = "idle"
    /\ eof = FALSE
    /\ stopAt = -1
    /\ ipc = "idle"
    /\ iarg = ""
    /\ runs = 0
    /\ ninv = 0
    /\ nraised = 0
    /\ firstArg = ""
    /\ naborts = 0
    /\ tpc = "idle"
    /\ nterm = 0
    /\ outcomes = <<>>
    /\ log = <<>>
    /\ backend = "running"
    /\ stdinClosed = FALSE
    /\ stdoutClosed = FALSE
    /\ names = [vars |-> 0, funs |-> 0]
    /\ csync = [t \in Threads |-> <<>>]
    /\ slept = <<>>
    /\ given = [pre |-> <<>>, text |-> <<>>]
    /\ wt = NoWait
    /\ bound = [e \in Events |-> <<>>]
    /\ fires = [n |-> 0, printed |-> {}]
    /\ clock = 0
    /\ invoker = NoInvoker

\* ------------------------------------------------------ GnuplotProcess.send
isnumber(x) == x \notin {None, NotANumber}

\* GnuplotProcess.__getTimeout
getTimeout(timeout) ==
    IF isnumber(timeout) /\ timeout < 0 THEN defaultTimeout ELSE timeout

beginTokenOf(t) == BeginToken(InstanceId, call[t].cmd_id)
doneTokenOf(t) == DoneToken(InstanceId, call[t].cmd_id)

\* send up to `cmd_id = self.__genCmdId()`: the arguments are checked, the
\* timeout is resolved and the generator behind __genCmdId is entered. A
\* generator that is already executing (another thread is inside its body)
\* raises ValueError('generator already executing').
SendEnter(t, lines, timeout) ==
    /\ pc[t] = "idle"
    /\ ncalls < MaxCalls
    /\ t = "a" \/ ncalls > 0
    /\ ncalls' = ncalls + 1
    /\ call' = [call EXCEPT ![t] = [NoCall EXCEPT !.id = ncalls + 1,
                                                  !.lines = lines,
                                                  !.timeout = getTimeout(timeout)]]
    /\ IF genRunning
       THEN /\ ret' = [ret EXCEPT ![t] = [NoRet EXCEPT !.kind = "ValueError",
                                                       !.id = ncalls + 1]]
            /\ UNCHANGED <<pc, genRunning>>
       ELSE /\ genRunning' = TRUE
            /\ pc' = [pc EXCEPT ![t] = "gen"]
            /\ UNCHANGED ret
    /\ UNCHANGED restVars
    /\ UNCHANGED <<counter, pipeVars, futures, readerVars>>

\* The body of LockedGenerator.locked up to its yield: next(gen) under the
\* lock, then the value is handed to the caller.
GenYield(t) ==
    /\ pc[t] = "gen"
    /\ counter' = counter + 1
    /\ genRunning' = FALSE
    /\ call' = [call EXCEPT ![t].cmd_id = counter]
    /\ pc' = [pc EXCEPT ![t] = IF call[t].timeout = NO_WAIT THEN "lines" ELSE "begin"]
    /\ UNCHANGED restVars
    /\ UNCHANGED <<ret, ncalls, pipeVars, futures, readerVars>>

\* GnuplotProcess.__sendLine: one unbuffered write of line + os.linesep
sendLine(t, line) ==
    /\ wire' = Append(wire, [line |-> line, by |-> t, id |-> call[t].id])
    /\ stdout' = stdout \o GnuplotOutput(line)

\* A send that announces the done token where the begin token belongs (a
\* faulty variant of SendBeginToken)
SendDoneTokenFirst(t) ==
    /\ pc[t] = "begin"
    /\ sendLine(t, PRINTERR(doneTokenOf(t)))
    /\ pc' = [pc EXCEPT ![t] = "lines"]
    /\ UNCHANGED restVars
    /\ UNCHANGED <<call, ret, ncalls, genVars, futures, readerVars>>

\* if not timeout_is_no_wait: self.__sendLine(printBeginToken)
SendBeginToken(t) ==
    /\ pc[t] = "begin"
    /\ sendLine(t, PRINTERR(beginTokenOf(t)))
    /\ pc' = [pc EXCEPT ![t] = "lines"]
    /\ UNCHANGED restVars
    /\ UNCHANGED <<call, ret, ncalls, genVars, futures, readerVars>>

\* for line in lines: self.__sendLine(line)
SendLines(t) ==
    /\ pc[t] = "lines"
    /\ call[t].i < Len(call[t].lines)
    /\ sendLine(t, call[t].lines[call[t].i + 1])
    /\ call' = [call EXCEPT ![t].i = @ + 1]
    /\ pc' = [pc EXCEPT ![t] =
                IF call[t].i + 1 < Len(call[t].lines) THEN "lines"
                ELSE IF call[t].timeout = NO_WAIT THEN "request" ELSE "done"]
    /\ UNCHANGED restVars
    /\ UNCHANGED <<ret, ncalls, genVars, futures, readerVars>>

\* if not timeout_is_no_wait: self.__sendLine(printDoneToken)
SendDoneToken(t) ==
    /\ pc[t] = "done"
    /\ sendLine(t, PRINTERR(doneTokenOf(t)))
    /\ pc' = [pc EXCEPT ![t] = "request"]
    /\ UNCHANGED restVars
    /\ UNCHANGED <<call, ret, ncalls, genVars, futures, readerVars>>

\* An end of send that skips the error scan and always returns the text (a
\* faulty variant of SendReturn)
SendReturnNoRaise(t, unsync_result, result) ==
    /\ ret' = [ret EXCEPT ![t] =
                 [NoRet EXCEPT !.kind = "return", !.id = call[t].id,
                               !.unsync = unsync_result,
                               !.value = IF result = <<>> THEN PyNone
                                         ELSE PyStr(result)]]
    /\ pc' = [pc EXCEPT ![t] = "idle"]

\* An end of send that scans the unsynchronized text for errors as well (a
\* faulty variant of SendReturn)
SendReturnScansUnsync(t, unsync_result, result) ==
    LET error == parseError(unsync_result \o result)
    IN  /\ ret' = [ret EXCEPT ![t] =
                     IF error.found
                     THEN [NoRet EXCEPT !.kind = "GnuplotError", !.id = call[t].id,
                                        !.unsync = unsync_result,
                                        !.cause = <<error.cmd>>,
                                        !.line = error.line, !.msg = error.msg]
                     ELSE [NoRet EXCEPT !.kind = "return", !.id = call[t].id,
                                        !.unsync = unsync_result,
                                        !.value = IF result = <<>> THEN PyNone
                                                  ELSE PyStr(result)]]
        /\ pc' = [pc EXCEPT ![t] = "idle"]

\* The end of send, from the pair requestOutput returned
SendReturn(t, unsync_result, result) ==
    LET error == parseError(result)
    IN  /\ ret' = [ret EXCEPT ![t] =
                     IF error.found
                     THEN [NoRet EXCEPT !.kind = "GnuplotError", !.id = call[t].id,
                                        !.unsync = unsync_result,
                                        !.cause = <<error.cmd>>,
                                        !.line = error.line, !.msg = error.msg]
                     ELSE [NoRet EXCEPT !.kind = "return", !.id = call[t].id,
                                        !.unsync = unsync_result,
                                        !.value = IF result = <<>> THEN PyNone
                                                  ELSE PyStr(result)]]
        /\ pc' = [pc EXCEPT ![t] = "idle"]

\* self.__stdin.flush(), then requestOutput up to future.waitDone: with
\* NO_WAIT it returns ('', '') at once, otherwise a Future is created and
\* put on the request queue with the two tokens.
RequestOutput(t) ==
    /\ pc[t] = "request"
    /\ IF call[t].timeout = NO_WAIT
       THEN /\ SendReturn(t, <<>>, <<>>)
            /\ UNCHANGED <<call, futures, requests>>
       ELSE /\ futures' = Append(futures, NewFuture)
            /\ requests' = Append(requests, [fut |-> Len(futures) + 1,
                                             begin |-> beginTokenOf(t),
                                             done |-> doneTokenOf(t)])
            /\ call' = [call EXCEPT ![t].fut = Len(futures) + 1]
            /\ pc' = [pc EXCEPT ![t] = "wait"]
            /\ UNCHANGED ret
    /\ UNCHANGED restVars
    /\ UNCHANGED <<ncalls, genVars, pipeVars, doing, stopFlag, wpc, wreq, buff>>

\* Future.waitDone returns the result: the completion event is set
WaitDone(t) ==
    /\ pc[t] = "wait"
    /\ call[t].timeout = None \/ isnumber(call[t].timeout)
    /\ futures[call[t].fut].done
    /\ SendReturn(t, futures[call[t].fut].unsync, futures[call[t].fut].result)
    /\ UNCHANGED restVars
    /\ UNCHANGED <<call, ncalls, genVars, pipeVars, futures, readerVars>>

\* An abort that also clears the completion event (a faulty variant of abort)
abortClearsDone(fs, r) == [fs EXCEPT ![r].abort = TRUE, ![r].done = FALSE]

\* Future.abort
abort(fs, r) == [fs EXCEPT ![r].abort = TRUE]

\* A handler that leaves the future alone (a faulty variant of except)
exceptNoAbort(fs, r) == fs

\* The handler of FutureTimeoutError in requestOutput: future.abort()
except(fs, r) == abort(fs, r)

\* Future.waitDone raises FutureTimeoutError: the completion event was not
\* set within `timeout` seconds (timeout is a number). requestOutput aborts
\* the future and raises GnuplotTimeoutError with the cause and the timeout.
WaitTimeout(t) ==
    /\ pc[t] = "wait"
    /\ isnumber(call[t].timeout)
    /\ ~futures[call[t].fut].done
    /\ futures' = except(futures, call[t].fut)
    /\ ret' = [ret EXCEPT ![t] =
                 [NoRet EXCEPT !.kind = "GnuplotTimeoutError", !.id = call[t].id,
                               !.cause = <<"Sending " \o beginTokenOf(t)[1]>>,
                               !.timeout = call[t].timeout]]
    /\ pc' = [pc EXCEPT ![t] = "idle"]
    /\ UNCHANGED restVars
    /\ UNCHANGED <<call, ncalls, genVars, pipeVars, readerVars>>

\* ---------------------------------------------------- _GnuplotOutputReader
\* The loop condition of __consumeUntilDone
keepReading(b, doneToken, aborted) ==
    ~(EndsWith(b, doneToken \o <<NL>>) \/ aborted)

\* What __consumeUntilDone returns once its loop has ended: the pair
\* (unsync, result) cut out of the buffer
consumed(b, beginToken0, doneToken0) ==
    LET beginToken == beginToken0 \o <<NL>>
        doneToken == doneToken0 \o <<NL>>
        start == Find(b, beginToken)
    IN  IF start > -1
        THEN [unsync |-> IF start > 0 THEN PySlice(b, 0, start - 1) ELSE <<>>,
              result |-> PySlice(b, start + Len(beginToken), -(Len(doneToken) + 1))]
        ELSE [unsync |-> <<>>,
              result |-> PySlice(b, 0, -(Len(doneToken) + 1))]

\* while not self.__stop()
WorkerLoop ==
    /\ wpc = "loop"
    /\ wpc' = IF stopFlag THEN "exit" ELSE "get"
    /\ UNCHANGED restVars
    /\ UNCHANGED <<callerVars, genVars, pipeVars, futures, requests, doing,
                   stopFlag, wreq, buff>>

\* A reader that takes the newest request first (a faulty variant of
\* WorkerGet)
WorkerGetLast ==
    /\ wpc = "get"
    /\ requests # <<>>
    /\ requests[Len(requests)] # NoRequest
    /\ wreq' = requests[Len(requests)]
    /\ requests' = SubSeq(requests, 1, Len(requests) - 1)
    /\ wpc' = "tag"
    /\ UNCHANGED restVars
    /\ UNCHANGED <<callerVars, genVars, pipeVars, futures, doing, stopFlag, buff>>

\* request = self.__requests.get() (blocking), a request is taken
WorkerGet ==
    /\ wpc = "get"
    /\ requests # <<>>
    /\ Head(requests) # NoRequest
    /\ wreq' = Head(requests)
    /\ requests' = Tail(requests)
    /\ wpc' = "tag"
    /\ UNCHANGED restVars
    /\ UNCHANGED <<callerVars, genVars, pipeVars, futures, doing, stopFlag, buff>>

\* with self.__lock: self.__doing.add(todo)
WorkerTag ==
    /\ wpc = "tag"
    /\ doing' = doing \cup {wreq.fut}
    /\ wpc' = "call"
    /\ UNCHANGED restVars
    /\ UNCHANGED <<callerVars, genVars, pipeVars, futures, requests, stopFlag,
                   wreq, buff>>

\* A task that reads before it tests its loop condition (a faulty variant of
\* WorkerCall)
WorkerCallReadsFirst ==
    /\ wpc = "call"
    /\ ~futures[wreq.fut].called
    /\ futures' = [futures EXCEPT ![wreq.fut].called = TRUE]
    /\ buff' = <<>>
    /\ wpc' = "read"
    /\ UNCHANGED restVars
    /\ UNCHANGED <<callerVars, genVars, pipeVars, requests, doing, stopFlag, wreq>>

\* todo(beginToken, doneToken): Future.__call swaps itself for
\* __cantCallTwice and enters the task, which tests its loop condition on
\* the empty buffer.
WorkerCall ==
    /\ wpc = "call"
    /\ ~futures[wreq.fut].called
    /\ futures' = [futures EXCEPT ![wreq.fut].called = TRUE]
    /\ buff' = <<>>
    /\ wpc' = IF keepReading(<<>>, wreq.done, futures[wreq.fut].abort)
              THEN "read" ELSE "return"
    /\ UNCHANGED restVars
    /\ UNCHANGED <<callerVars, genVars, pipeVars, requests, doing, stopFlag, wreq>>

\* c = self.__input.read(1); buff += c.decode(errors='replace'), then the
\* loop condition is tested again. The read blocks while the stream is empty.
WorkerRead ==
    /\ wpc = "read"
    /\ stdout # <<>>
    /\ buff' = Append(buff, Head(stdout))
    /\ stdout' = Tail(stdout)
    /\ wpc' = IF keepReading(Append(buff, Head(stdout)), wreq.done,
                             futures[wreq.fut].abort)
              THEN "read" ELSE "return"
    /\ UNCHANGED restVars
    /\ UNCHANGED <<callerVars, genVars, wire, futures, requests, doing,
                   stopFlag, wreq>>

\* The task returns and Future.__call stores self.__result. sawDone keeps
\* whether the loop was left on the done token.
WorkerReturn ==
    /\ wpc = "return"
    /\ LET r == consumed(buff, wreq.begin, wreq.done)
       IN  futures' = [futures EXCEPT ![wreq.fut].hasResult = TRUE,
                                      ![wreq.fut].unsync = r.unsync,
                                      ![wreq.fut].result = r.result,
                                      ![wreq.fut].sawDone =
                                          EndsWith(buff, wreq.done \o <<NL>>)]
    /\ wpc' = "setdone"
    /\ UNCHANGED restVars
    /\ UNCHANGED <<callerVars, genVars, pipeVars, requests, doing, stopFlag,
                   wreq, buff>>

\* Future.__call: self.__done(True)
WorkerSetDone ==
    /\ wpc = "setdone"
    /\ futures' = [futures EXCEPT ![wreq.fut].done = TRUE]
    /\ wpc' = "untag"
    /\ UNCHANGED restVars
    /\ UNCHANGED <<callerVars, genVars, pipeVars, requests, doing, stopFlag,
                   wreq, buff>>

\* A reader that forgets to remove the request from the in-progress set (a
\* faulty variant of WorkerUntag)
WorkerUntagKeep ==
    /\ wpc = "untag"
    /\ doing' = doing
    /\ wpc' = "loop"
    /\ UNCHANGED restVars
    /\ UNCHANGED <<callerVars, genVars, pipeVars, futures, requests, stopFlag,
                   wreq, buff>>

\* A removal whose KeyError is not handled (a faulty variant of remove)
removeUnhandled(d, r) == [doing |-> d \ {r}, escaped |-> r \notin d]

\* try: self.__doing.remove(todo) / except KeyError: pass
remove(d, r) == [doing |-> d \ {r}, escaped |-> FALSE]

\* self.__requests.task_done(); with self.__lock: self.__doing.remove(todo),
\* the KeyError of an already removed request is ignored. An exception that
\* leaves __run ends the thread.
WorkerUntag ==
    /\ wpc = "untag"
    /\ doing' = remove(doing, wreq.fut).doing
    /\ wpc' = IF remove(doing, wreq.fut).escaped THEN "crashed" ELSE "loop"
    /\ UNCHANGED restVars
    /\ UNCHANGED <<callerVars, genVars, pipeVars, futures, requests, stopFlag,
                   wreq, buff>>

\* ---------------------------------------------------------- specification
Send(t) ==
    \/ \E in \in Inputs : SendEnter(t, in[1], in[2])
    \/ GenYield(t)
    \/ SendBeginToken(t)
    \/ SendLines(t)
    \/ SendDoneToken(t)
    \/ RequestOutput(t)
    \/ WaitDone(t)
    \/ WaitTimeout(t)

Worker ==
    \/ WorkerLoop
    \/ WorkerGet
    \/ WorkerTag
    \/ WorkerCall
    \/ WorkerRead
    \/ WorkerReturn
    \/ WorkerSetDone
    \/ WorkerUntag

Next ==
    \/ \E t \in Threads : Send(t)
    \/ Worker

Spec == Init /\ [][Next]_vars

\* ------------------------------------------- _GnuplotOutputReader.stop
\* Total number of read requests submitted over a run of StopSpec.
MaxRequests == 2

\* What the subprocess prints for the two token announcements of a batch
\* with no output of its own
TokensOutput(cmd_id) ==
    GnuplotOutput(PRINTERR(BeginToken(InstanceId, cmd_id)))
        \o GnuplotOutput(PRINTERR(DoneToken(InstanceId, cmd_id)))

\* requestOutput(cause, beginToken, doneToken, timeout) up to
\* future.waitDone, with a timeout that is not NO_WAIT: a Future is created
\* and put on the queue with the tokens of a fresh command. The subprocess
\* has either printed the two tokens or nothing (it hangs, or it has closed
\* its output).
SubmitRequest(t, timeout, answered) ==
    /\ pc[t] = "idle"
    /\ Len(futures) < MaxRequests
    /\ t = "a" \/ Len(futures) > 0
    /\ timeout # NO_WAIT
    /\ call' = [call EXCEPT ![t] = [NoCall EXCEPT !.id = Len(futures) + 1,
                                                  !.timeout = timeout,
                                                  !.cmd_id = Len(futures),
                                                  !.fut = Len(futures) + 1]]
    /\ futures' = Append(futures, NewFuture)
    /\ requests' = Append(requests, [fut |-> Len(futures) + 1,
                                     begin |-> BeginToken(InstanceId, Len(futures)),
                                     done |-> DoneToken(InstanceId, Len(futures))])
    /\ stdout' = IF answered /\ ~eof THEN stdout \o TokensOutput(Len(futures))
                 ELSE stdout
    /\ pc' = [pc EXCEPT ![t] = "wait"]
    /\ UNCHANGED <<ret, ncalls, genVars, wire, doing, stopFlag, wpc, wreq, buff>>
    /\ UNCHANGED restVars

\* The subprocess closes its output stream: every later read finds the end
\* of the file once the characters already printed have been read.
CloseOutput ==
    /\ ~eof
    /\ eof' = TRUE
    /\ UNCHANGED <<callerVars, genVars, pipeVars, futures, readerVars, spc, stopAt>>
    /\ UNCHANGED outsideStop

\* c = self.__input.read(1) at the end of the file: c is empty, nothing is
\* added to the buffer and the loop condition is tested again.
WorkerReadEof ==
    /\ wpc = "read"
    /\ stdout = <<>>
    /\ eof
    /\ wpc' = IF keepReading(buff, wreq.done, futures[wreq.fut].abort)
              THEN "read" ELSE "return"
    /\ UNCHANGED <<callerVars, genVars, pipeVars, futures, requests, doing,
                   stopFlag, wreq, buff>>
    /\ UNCHANGED restVars

\* request = self.__requests.get() gives None, the value stop puts in the
\* queue: the request is not handled and the loop goes on
WorkerGetNone ==
    /\ wpc = "get"
    /\ requests # <<>>
    /\ Head(requests) = NoRequest
    /\ requests' = Tail(requests)
    /\ wpc' = "loop"
    /\ UNCHANGED <<callerVars, genVars, pipeVars, futures, doing, stopFlag,
                   wreq, buff>>
    /\ UNCHANGED restVars

\* stop: if not self.__stop(): self.__stop(True)
StopEnter ==
    /\ spc = "idle"
    /\ stopAt' = Len(futures)
    /\ IF stopFlag
       THEN spc' = "done" /\ UNCHANGED stopFlag
       ELSE spc' = "purge" /\ stopFlag' = TRUE
    /\ UNCHANGED <<callerVars, genVars, pipeVars, futures, requests, doing,
                   wpc, wreq, buff, eof>>
    /\ UNCHANGED outsideStop

\* stop: while not self.__requests.empty()
StopPurgeTest ==
    /\ spc = "purge"
    /\ spc' = IF requests = <<>> THEN "put" ELSE "purgeget"
    /\ UNCHANGED <<callerVars, genVars, pipeVars, futures, readerVars, eof, stopAt>>
    /\ UNCHANGED outsideStop

\* stop: todo, beginToken, doneToken = self.__requests.get(); todo.abort().
\* The get blocks while the queue is empty.
StopPurgeGet ==
    /\ spc = "purgeget"
    /\ requests # <<>>
    /\ futures' = abort(futures, Head(requests).fut)
    /\ requests' = Tail(requests)
    /\ spc' = "purge"
    /\ UNCHANGED <<callerVars, genVars, pipeVars, doing, stopFlag, wpc, wreq,
                   buff, eof, stopAt>>
    /\ UNCHANGED outsideStop

\* A stop that puts nothing in the queue (a faulty variant of StopPut)
StopNoSentinel ==
    /\ spc = "put"
    /\ requests' = requests
    /\ spc' = "doing"
    /\ UNCHANGED <<callerVars, genVars, pipeVars, futures, doing, stopFlag,
                   wpc, wreq, buff, eof, stopAt>>
    /\ UNCHANGED outsideStop

\* stop: self.__requests.put(None)
StopPut ==
    /\ spc = "put"
    /\ requests' = Append(requests, NoRequest)
    /\ spc' = "doing"
    /\ UNCHANGED <<callerVars, genVars, pipeVars, futures, doing, stopFlag,
                   wpc, wreq, buff, eof, stopAt>>
    /\ UNCHANGED outsideStop

\* Every future of the set fs is aborted
RECURSIVE abortAll(_, _)
abortAll(fs, rs) ==
    IF rs = {} THEN fs
    ELSE LET r == CHOOSE x \in rs : TRUE
         IN  abortAll(abort(fs, r), rs \ {r})

\* stop: with self.__lock: while len(self.__doing) > 0:
\* self.__doing.pop().abort()
StopDoing ==
    /\ spc = "doing"
    /\ futures' = abortAll(futures, doing)
    /\ doing' = {}
    /\ spc' = "done"
    /\ UNCHANGED <<callerVars, genVars, pipeVars, requests, stopFlag, wpc,
                   wreq, buff, eof, stopAt>>
    /\ UNCHANGED outsideStop

ReaderStop ==
    \/ StopEnter
    \/ StopPurgeTest
    \/ StopPurgeGet
    \/ StopPut
    \/ StopDoing

StopWorker ==
    \/ Worker
    \/ WorkerGetNone
    \/ WorkerReadEof

StopNext ==
    \/ \E t \in Threads : \E timeout \in {None, 5} : \E answered \in BOOLEAN :
          SubmitRequest(t, timeout, answered)
    \/ \E t \in Threads : WaitDone(t)
    \/ \E t \in Threads : WaitTimeout(t)
    \/ StopWorker
    \/ ReaderStop
    \/ CloseOutput

\* The reader thread runs whenever it can, a stop that was entered goes on,
\* a completed future releases its waiter and a finite timeout elapses. No
\* caller is obliged to submit a request or to call stop.
StopFairness ==
    /\ WF_vars(StopWorker)
    /\ WF_vars(StopPurgeTest \/ StopPurgeGet \/ StopPut \/ StopDoing)
    /\ \A t \in Threads : WF_vars(WaitDone(t) \/ WaitTimeout(t))

StopSpec == Init /\ [][StopNext]_vars /\ StopFairness

\* ------------------------------------------------------------- one Future
\* Number of invocations of the Future and of calls of abort over a run
MaxInvocations == 3
MaxAborts == 2

\* The arguments an invocation may pass on to the task
Args == {"x", "y"}

\* The wrapped task: it is given the abort event and the arguments of the
\* invocation, and here it returns its argument
Task(arg) == <<arg>>

\* One Future has been constructed (Future.__init__) and nothing else
FutureInit ==
    /\ pc = [t \in Threads |-> "idle"]
    /\ call = [t \in Threads |-> NoCall]
    /\ ret = [t \in Threads |-> NoRet]
    /\ ncalls = 0
    /\ counter = FirstCmdId
    /\ genRunning = FALSE
    /\ wire = <<>>
    /\ stdout = <<>>
    /\ futures = <<NewFuture>>
    /\ requests = <<>>
    /\ doing = {}
    /\ stopFlag = FALSE
    /\ wpc = "loop"
    /\ wreq = NoRequest
    /\ buff = <<>>
    /\ spc = "idle"
    /\ eof = FALSE
    /\ stopAt = -1
    /\ ipc = "idle"
    /\ iarg = ""
    /\ runs = 0
    /\ ninv = 0
    /\ nraised = 0
    /\ firstArg = ""
    /\ naborts = 0
    /\ tpc = "idle"
    /\ nterm = 0
    /\ outcomes = <<>>
    /\ log = <<>>
    /\ backend = "running"
    /\ stdinClosed = FALSE
    /\ stdoutClosed = FALSE
    /\ names = [vars |-> 0, funs |-> 0]
    /\ csync = [t \in Threads |-> <<>>]
    /\ slept = <<>>
    /\ given = [pre |-> <<>>, text |-> <<>>]
    /\ wt = NoWait
    /\ bound = [e \in Events |-> <<>>]
    /\ fires = [n |-> 0, printed |-> {}]
    /\ clock = 0
    /\ invoker = NoInvoker

\* An invocation that runs the task whatever the state of the Future (a
\* faulty variant of FutInvoke)
FutInvokeAgain(arg) ==
    /\ ipc = "idle"
    /\ ninv < MaxInvocations
    /\ ninv' = ninv + 1
    /\ iarg' = arg
    /\ firstArg' = IF ninv = 0 THEN arg ELSE firstArg
    /\ futures' = [futures EXCEPT ![1].called = TRUE]
    /\ ipc' = "task"
    /\ UNCHANGED <<callerVars, runs, nraised, naborts>>
    /\ UNCHANGED outsideUnit

\* Future.__call__: self.__call(*args, **kwargs). The first invocation finds
\* Future.__call, which replaces itself by __cantCallTwice under the lock;
\* a later one finds __cantCallTwice, which raises FutureStateError.
FutInvoke(arg) ==
    /\ ipc = "idle"
    /\ ninv < MaxInvocations
    /\ ninv' = ninv + 1
    /\ iarg' = arg
    /\ firstArg' = IF ninv = 0 THEN arg ELSE firstArg
    /\ IF futures[1].called
       THEN /\ nraised' = nraised + 1
            /\ UNCHANGED <<futures, ipc>>
       ELSE /\ futures' = [futures EXCEPT ![1].called = TRUE]
            /\ ipc' = "task"
            /\ UNCHANGED nraised
    /\ UNCHANGED <<callerVars, runs, naborts>>
    /\ UNCHANGED outsideUnit

\* A call of the task that signals completion as soon as the task is
\* entered (a faulty variant of FutRunTask)
FutRunTaskSignalsFirst ==
    /\ ipc = "task"
    /\ runs' = runs + 1
    /\ futures' = [futures EXCEPT ![1].done = TRUE]
    /\ ipc' = "store"
    /\ UNCHANGED <<callerVars, iarg, ninv, nraised, firstArg, naborts>>
    /\ UNCHANGED outsideUnit

\* Future.__call: self.__task(self.__abort, *args, **kwargs) is entered
FutRunTask ==
    /\ ipc = "task"
    /\ runs' = runs + 1
    /\ ipc' = "store"
    /\ UNCHANGED <<callerVars, futures, iarg, ninv, nraised, firstArg, naborts>>
    /\ UNCHANGED outsideUnit

\* Future.__call: the task returns and self.__result is assigned
FutStore ==
    /\ ipc = "store"
    /\ futures' = [futures EXCEPT ![1].hasResult = TRUE,
                                  ![1].result = Task(iarg)]
    /\ ipc' = "setdone"
    /\ UNCHANGED <<callerVars, iarg, runs, ninv, nraised, firstArg, naborts>>
    /\ UNCHANGED outsideUnit

\* Future.__call: self.__done(True)
FutSetDone ==
    /\ ipc = "setdone"
    /\ futures' = [futures EXCEPT ![1].done = TRUE]
    /\ ipc' = "idle"
    /\ UNCHANGED <<callerVars, iarg, runs, ninv, nraised, firstArg, naborts>>
    /\ UNCHANGED outsideUnit

\* Future.abort(), called by any thread at any time
FutAbort ==
    /\ naborts < MaxAborts
    /\ naborts' = naborts + 1
    /\ futures' = abort(futures, 1)
    /\ UNCHANGED <<callerVars, ipc, iarg, runs, ninv, nraised, firstArg>>
    /\ UNCHANGED outsideUnit

\* Future.waitDone(timeout) is called: the thread waits on the completion
\* event
FutWaitEnter(t, timeout) ==
    /\ pc[t] = "idle"
    /\ ncalls < MaxCalls
    /\ t = "a" \/ ncalls > 0
    /\ ncalls' = ncalls + 1
    /\ call' = [call EXCEPT ![t] = [NoCall EXCEPT !.id = ncalls + 1,
                                                  !.timeout = timeout,
                                                  !.fut = 1]]
    /\ pc' = [pc EXCEPT ![t] = "wait"]
    /\ UNCHANGED <<ret, futures, unitVars>>
    /\ UNCHANGED outsideUnit

\* Future.waitDone: self.__done.wait(timeout) is true, self.__result is
\* returned
FutWaitReturn(t) ==
    /\ pc[t] = "wait"
    /\ futures[call[t].fut].done
    /\ ret' = [ret EXCEPT ![t] = [NoRet EXCEPT !.kind = "return",
                                               !.id = call[t].id,
                                               !.value = PyStr(futures[call[t].fut].result)]]
    /\ pc' = [pc EXCEPT ![t] = "idle"]
    /\ UNCHANGED <<call, ncalls, futures, unitVars>>
    /\ UNCHANGED outsideUnit

\* Future.waitDone: self.__done.wait(timeout) is false after `timeout`
\* seconds, FutureTimeoutError is raised
FutWaitTimeout(t) ==
    /\ pc[t] = "wait"
    /\ isnumber(call[t].timeout)
    /\ ~futures[call[t].fut].done
    /\ ret' = [ret EXCEPT ![t] = [NoRet EXCEPT !.kind = "FutureTimeoutError",
                                               !.id = call[t].id,
                                               !.timeout = call[t].timeout]]
    /\ pc' = [pc EXCEPT ![t] = "idle"]
    /\ UNCHANGED <<call, ncalls, futures, unitVars>>
    /\ UNCHANGED outsideUnit

FutureNext ==
    \/ \E arg \in Args : FutInvoke(arg)
    \/ FutRunTask
    \/ FutStore
    \/ FutSetDone
    \/ FutAbort
    \/ \E t \in Threads : \E timeout \in {None, 0, 5} : FutWaitEnter(t, timeout)
    \/ \E t \in Threads : FutWaitReturn(t)
    \/ \E t \in Threads : FutWaitTimeout(t)

FutureSpec == FutureInit /\ [][FutureNext]_vars

\* ---------------------------------------- GnuplotProcess.stop / terminate
\* Number of calls of terminate over a run
MaxTerminates == 2

\* The process has been constructed; the namespaces of the context hold
\* zero or one definition each.
LifeInit ==
    /\ pc = [t \in Threads |-> "idle"]
    /\ call = [t \in Threads |-> NoCall]
    /\ ret = [t \in Threads |-> NoRet]
    /\ ncalls = 0
    /\ counter = FirstCmdId
    /\ genRunning = FALSE
    /\ wire = <<>>
    /\ stdout = <<>>
    /\ futures = <<>>
    /\ requests = <<>>
    /\ doing = {}
    /\ stopFlag = FALSE
    /\ wpc = "loop"
    /\ wreq = NoRequest
    /\ buff = <<>>
    /\ spc = "idle"
    /\ eof = FALSE
    /\ stopAt = -1
    /\ ipc = "idle"
    /\ iarg = ""
    /\ runs = 0
    /\ ninv = 0
    /\ nraised = 0
    /\ firstArg = ""
    /\ naborts = 0
    /\ tpc = "idle"
    /\ nterm = 0
    /\ outcomes = <<>>
    /\ log = <<>>
    /\ backend = "running"
    /\ stdinClosed = FALSE
    /\ stdoutClosed = FALSE
    /\ names \in [{"vars", "funs"} -> 0..1]
    /\ csync = [t \in Threads |-> <<>>]
    /\ slept = <<>>
    /\ given = [pre |-> <<>>, text |-> <<>>]
    /\ wt = NoWait
    /\ bound = [e \in Events |-> <<>>]
    /\ fires = [n |-> 0, printed |-> {}]
    /\ clock = 0
    /\ invoker = NoInvoker

\* An entry of the log: what was done, by which call of terminate, and
\* whether the subprocess had already exited when it was done
Did(op) == [op |-> op, call |-> nterm, exited |-> backend = "exited"]

\* The subprocess exits: it was told to quit, it saw the end of its input,
\* it got a signal or it failed
BackendExits ==
    /\ backend = "running"
    /\ backend' = "exited"
    /\ UNCHANGED <<tpc, nterm, outcomes, log, stdinClosed, stdoutClosed, names>>
    /\ UNCHANGED <<counter, wire, futures, requests, doing, stopFlag>>
    /\ UNCHANGED outsideProc

\* terminate() is called
TerminateEnter ==
    /\ tpc = "idle"
    /\ nterm < MaxTerminates
    /\ nterm' = nterm + 1
    /\ tpc' = "vars"
    /\ UNCHANGED <<outcomes, log, backend, stdinClosed, stdoutClosed, names>>
    /\ UNCHANGED <<counter, wire, futures, requests, doing, stopFlag>>
    /\ UNCHANGED outsideProc

\* GnuplotContext.terminate: self.__vars.clear(timeout=NO_WAIT), then
\* self.__funs.clear(timeout=NO_WAIT). clear is one send with NO_WAIT of an
\* undefine line per entry: a command id is drawn, the lines are written,
\* the stream is flushed and the namespace is emptied. Writing to or flushing
\* a closed stream raises ValueError, which terminate silences (and which
\* ends the try block); writing to the pipe of a subprocess that has exited
\* raises BrokenPipeError, which terminate lets through.
ClearNamespace(ns) ==
    /\ tpc = ns
    /\ counter' = counter + 1
    /\ IF stdinClosed
       THEN /\ tpc' = "closeIn"
            /\ UNCHANGED <<wire, names, outcomes>>
       ELSE IF names[ns] > 0 /\ backend = "exited"
       THEN /\ tpc' = "idle"
            /\ outcomes' = Append(outcomes, "BrokenPipeError")
            /\ UNCHANGED <<wire, names>>
       ELSE /\ wire' = IF names[ns] > 0
                       THEN Append(wire, [line |-> Cmd("undefine"), by |-> "main",
                                          id |-> nterm])
                       ELSE wire
            /\ names' = [names EXCEPT ![ns] = 0]
            /\ tpc' = IF ns = "vars" THEN "funs" ELSE "closeIn"
            /\ UNCHANGED outcomes
    /\ UNCHANGED <<nterm, log, backend, stdinClosed, stdoutClosed>>
    /\ UNCHANGED <<futures, requests, doing, stopFlag>>
    /\ UNCHANGED outsideProc

\* stop: self.__stdin.close()
StopCloseStdin ==
    /\ tpc = "closeIn"
    /\ stdinClosed' = TRUE
    /\ log' = Append(log, Did("close stdin"))
    /\ tpc' = "closeOut"
    /\ UNCHANGED <<nterm, outcomes, backend, stdoutClosed, names>>
    /\ UNCHANGED <<counter, wire, futures, requests, doing, stopFlag>>
    /\ UNCHANGED outsideProc

\* stop: self.__stdout.close()
StopCloseStdout ==
    /\ tpc = "closeOut"
    /\ stdoutClosed' = TRUE
    /\ log' = Append(log, Did("close stdout"))
    /\ tpc' = "reader"
    /\ UNCHANGED <<nterm, outcomes, backend, stdinClosed, names>>
    /\ UNCHANGED <<counter, wire, futures, requests, doing, stopFlag>>
    /\ UNCHANGED outsideProc

\* stop: self.__reader.stop(), the whole call
StopReader ==
    /\ tpc = "reader"
    /\ IF stopFlag
       THEN UNCHANGED <<stopFlag, futures, requests, doing>>
       ELSE /\ stopFlag' = TRUE
            /\ futures' = abortAll(futures,
                                   {requests[i].fut : i \in 1..Len(requests)} \cup doing)
            /\ requests' = <<NoRequest>>
            /\ doing' = {}
    /\ log' = Append(log, Did("stop reader"))
    /\ tpc' = "poll"
    /\ UNCHANGED <<nterm, outcomes, backend, stdinClosed, stdoutClosed, names>>
    /\ UNCHANGED <<counter, wire>>
    /\ UNCHANGED outsideProc

\* stop: if self.__backend.poll() is None
StopPoll ==
    /\ tpc = "poll"
    /\ tpc' = IF backend = "running" THEN "sleep1" ELSE "join"
    /\ UNCHANGED <<nterm, outcomes, log, backend, stdinClosed, stdoutClosed, names>>
    /\ UNCHANGED <<counter, wire, futures, requests, doing, stopFlag>>
    /\ UNCHANGED outsideProc

\* stop: time.sleep(1) has ended; self.__backend.terminate(), then
\* if self.__backend.poll() is None
StopTerminate ==
    /\ tpc = "sleep1"
    /\ log' = Append(log, Did("terminate"))
    /\ tpc' = IF backend = "running" THEN "sleep2" ELSE "join"
    /\ UNCHANGED <<nterm, outcomes, backend, stdinClosed, stdoutClosed, names>>
    /\ UNCHANGED <<counter, wire, futures, requests, doing, stopFlag>>
    /\ UNCHANGED outsideProc

\* stop: time.sleep(4) has ended; if self.__backend.poll() is None:
\* self.__backend.kill()
StopKill ==
    /\ tpc = "sleep2"
    /\ log' = IF backend = "running" THEN Append(log, Did("kill")) ELSE log
    /\ tpc' = "join"
    /\ UNCHANGED <<nterm, outcomes, backend, stdinClosed, stdoutClosed, names>>
    /\ UNCHANGED <<counter, wire, futures, requests, doing, stopFlag>>
    /\ UNCHANGED outsideProc

\* stop: self.__reader.join() returns once the reader thread has ended, and
\* terminate returns
StopJoin ==
    /\ tpc = "join"
    /\ wpc \in {"exit", "crashed"}
    /\ log' = Append(log, Did("join"))
    /\ outcomes' = Append(outcomes, "return")
    /\ tpc' = "idle"
    /\ UNCHANGED <<nterm, backend, stdinClosed, stdoutClosed, names>>
    /\ UNCHANGED <<counter, wire, futures, requests, doing, stopFlag>>
    /\ UNCHANGED outsideProc

Terminate ==
    \/ TerminateEnter
    \/ \E ns \in {"vars", "funs"} : ClearNamespace(ns)
    \/ StopCloseStdin
    \/ StopCloseStdout
    \/ StopReader
    \/ StopPoll
    \/ StopTerminate
    \/ StopKill
    \/ StopJoin

LifeNext ==
    \/ Terminate
    \/ BackendExits
    \/ WorkerLoop
    \/ WorkerGetNone

LifeSpec == LifeInit /\ [][LifeNext]_vars

\* ------------------------------------------- the arguments of send and wait
\* GnuplotProcess.__authorized_sync = frozenset((PRINTERR, PRINTERR))
authorized_sync == {PRINTERR(<<>>).op}

\* The values a caller may pass as `sync`: pairs of PRINTERR and OSECHO,
\* a pair with something else, and a sequence that is not a pair
Syncs == {<<"printerr", "printerr">>, <<"printerr", "echo">>,
          <<"echo", "printerr">>, <<"echo", "echo">>,
          <<"printerr", "bogus">>, <<"printerr">>}

\* The values a caller may pass as `timeout`
ArgTimeouts == {5, NO_WAIT, NotANumber}

\* The two checks of `sync` at the head of send
validSync(sync) ==
    /\ Len(sync) = 2
    /\ \A i \in 1..Len(sync) : sync[i] \in authorized_sync

\* send(lines, timeout, sync) up to `cmd_id = self.__genCmdId()`: a bad
\* `sync` raises TypeError; otherwise the timeout is resolved and the
\* generator is entered.
SendEnterSync(t, lines, timeout, sync) ==
    /\ pc[t] = "idle"
    /\ ncalls < MaxCalls
    /\ ncalls' = ncalls + 1
    /\ csync' = [csync EXCEPT ![t] = sync]
    /\ IF ~validSync(sync)
       THEN /\ call' = [call EXCEPT ![t] = [NoCall EXCEPT !.id = ncalls + 1,
                                                         !.lines = lines,
                                                         !.timeout = timeout]]
            /\ ret' = [ret EXCEPT ![t] = [NoRet EXCEPT !.kind = "TypeError",
                                                       !.id = ncalls + 1]]
            /\ UNCHANGED <<pc, genRunning>>
       ELSE /\ call' = [call EXCEPT ![t] = [NoCall EXCEPT !.id = ncalls + 1,
                                                         !.lines = lines,
                                                         !.timeout = getTimeout(timeout)]]
            /\ IF genRunning
               THEN /\ ret' = [ret EXCEPT ![t] = [NoRet EXCEPT !.kind = "ValueError",
                                                               !.id = ncalls + 1]]
                    /\ UNCHANGED <<pc, genRunning>>
               ELSE /\ genRunning' = TRUE
                    /\ pc' = [pc EXCEPT ![t] = "gen"]
                    /\ UNCHANGED ret
    /\ UNCHANGED <<counter, pipeVars, futures, readerVars>>
    /\ UNCHANGED <<outsideArg, slept>>

\* Future.waitDone -> Event.wait(timeout) with a timeout that is neither
\* None nor a number >= 0: TypeError is raised; requestOutput catches only
\* FutureTimeoutError, so the error leaves send as it is and the future is
\* not aborted.
WaitBadTimeout(t) ==
    /\ pc[t] = "wait"
    /\ ~(call[t].timeout = None \/ isnumber(call[t].timeout))
    /\ ret' = [ret EXCEPT ![t] = [NoRet EXCEPT !.kind = "TypeError",
                                               !.id = call[t].id]]
    /\ pc' = [pc EXCEPT ![t] = "idle"]
    /\ UNCHANGED <<call, ncalls, genVars, pipeVars, futures, readerVars>>
    /\ UNCHANGED restVars

\* A test that lets wait sleep for a timeout of zero as well (a faulty
\* variant of positiveNumber)
zeroOrPositiveNumber(timeout) == isnumber(timeout) /\ timeout >= 0

\* wait: `isnumber(timeout) and timeout > 0`
positiveNumber(timeout) == isnumber(timeout) /\ timeout > 0

\* wait(evts=(), timeout): with no event the call sleeps `timeout` seconds
\* when that is a number > 0 and raises TypeError otherwise
WaitNoEvents(t, timeout) ==
    /\ pc[t] = "idle"
    /\ ncalls < MaxCalls
    /\ ncalls' = ncalls + 1
    /\ call' = [call EXCEPT ![t] = [NoCall EXCEPT !.id = ncalls + 1,
                                                  !.timeout = getTimeout(timeout)]]
    /\ IF positiveNumber(getTimeout(timeout))
       THEN /\ slept' = Append(slept, [id |-> ncalls + 1,
                                       seconds |-> getTimeout(timeout)])
            /\ ret' = [ret EXCEPT ![t] = [NoRet EXCEPT !.kind = "return",
                                                       !.id = ncalls + 1]]
       ELSE /\ ret' = [ret EXCEPT ![t] = [NoRet EXCEPT !.kind = "TypeError",
                                                       !.id = ncalls + 1]]
            /\ UNCHANGED slept
    /\ csync' = [csync EXCEPT ![t] = <<>>]
    /\ UNCHANGED <<pc, genVars, pipeVars, futures, readerVars>>
    /\ UNCHANGED outsideArg

\* The values a caller may pass as `timeout` to wait
WaitTimeouts == {5, NO_WAIT, NotANumber, DefaultArg, None}

\* One thread calls send and wait with every kind of argument
ArgSend(t) ==
    \/ \E timeout \in ArgTimeouts : \E sync \in Syncs :
          SendEnterSync(t, <<Cmd("print p")>>, timeout, sync)
    \/ \E timeout \in WaitTimeouts : WaitNoEvents(t, timeout)
    \/ GenYield(t)
    \/ SendBeginToken(t)
    \/ SendLines(t)
    \/ SendDoneToken(t)
    \/ RequestOutput(t)
    \/ WaitDone(t)
    \/ WaitTimeout(t)
    \/ WaitBadTimeout(t)

ArgNext ==
    \/ ArgSend("a")
    \/ Worker

ArgSpec == Init /\ [][ArgNext]_vars

\* ----------------------------------------------- __consumeUntilDone alone
\* Longest text before the begin token and between the two tokens
MaxText == 2

\* The texts the subprocess may print: characters and line ends
RECURSIVE TextsOf(_)
TextsOf(n) ==
    IF n = 0 THEN {<<>>}
    ELSE LET shorter == TextsOf(n - 1)
         IN  shorter \cup {Append(s, c) : s \in shorter, c \in {"p", NL}}

Texts == TextsOf(MaxText)

\* One request for the tokens of command 0 is queued, and the subprocess has
\* printed: some text, the begin token line, some text, the done token line.
ConsumeInit ==
    /\ given \in [pre : Texts, text : Texts]
    /\ stdout = given.pre \o BeginToken(InstanceId, FirstCmdId) \o <<NL>>
                  \o given.text \o DoneToken(InstanceId, FirstCmdId) \o <<NL>>
    /\ futures = <<NewFuture>>
    /\ requests = <<[fut |-> 1, begin |-> BeginToken(InstanceId, FirstCmdId),
                     done |-> DoneToken(InstanceId, FirstCmdId)]>>
    /\ pc = [t \in Threads |-> "idle"]
    /\ call = [t \in Threads |-> NoCall]
    /\ ret = [t \in Threads |-> NoRet]
    /\ ncalls = 0
    /\ counter = FirstCmdId + 1
    /\ genRunning = FALSE
    /\ wire = <<>>
    /\ doing = {}
    /\ stopFlag = FALSE
    /\ wpc = "loop"
    /\ wreq = NoRequest
    /\ buff = <<>>
    /\ spc = "idle"
    /\ eof = FALSE
    /\ stopAt = -1
    /\ ipc = "idle"
    /\ iarg = ""
    /\ runs = 0
    /\ ninv = 0
    /\ nraised = 0
    /\ firstArg = ""
    /\ naborts = 0
    /\ tpc = "idle"
    /\ nterm = 0
    /\ outcomes = <<>>
    /\ log = <<>>
    /\ backend = "running"
    /\ stdinClosed = FALSE
    /\ stdoutClosed = FALSE
    /\ names = [vars |-> 0, funs |-> 0]
    /\ csync = [t \in Threads |-> <<>>]
    /\ slept = <<>>
    /\ wt = NoWait
    /\ bound = [e \in Events |-> <<>>]
    /\ fires = [n |-> 0, printed |-> {}]
    /\ clock = 0
    /\ invoker = NoInvoker

\* The reader thread serves the request
ConsumeNext == Worker

ConsumeSpec == ConsumeInit /\ [][ConsumeNext]_vars

\* ------------------------------------------------- GnuplotProcess.wait
\* Last second of a run of WaitSpec, and number of event firings in it
MaxClock == 2
MaxFires == 2

\* GnuplotProcess.__EVENT_TOKEN, one character of the model like the tokens
\* of send
EventToken(id, evt, evt_id) ==
    <<"<newplot-" \o Str(id) \o "-" \o evt \o "-" \o Str(evt_id) \o ">">>

\* The lines wait sends: 'set term push', 'set term <name> <id>', 'refresh',
\* 'set term pop'; 'bind <evt> printerr "<token>"' and 'bind <evt> ""'
Term(what) == [op |-> "term", arg |-> <<what>>]
Bind(evt, token) == [op |-> "bind", arg |-> <<evt>> \o token]
Unbind(evt) == [op |-> "bind", arg |-> <<evt>>]

\* The event lists and the timeouts a caller may pass to wait
EventLists == {<<"e1", "e2">>}
EventTimeouts == {1, NO_WAIT, NotANumber}

\* The waiting thread
Waiter == "a"

\* The event wait is busy with, and its token
evtOf(w) == w.evts[w.k]
tokenOf(w) == EventToken(InstanceId, evtOf(w), w.evt_id)

\* wait(evts, timeout) with a non-empty list: the timeout is resolved; the
\* first command, 'set term push', is next.
WaitEnter(evts, timeout) ==
    /\ pc[Waiter] = "idle"
    /\ wt.pc = "idle"
    /\ ncalls < MaxCalls
    /\ ncalls' = ncalls + 1
    /\ call' = [call EXCEPT ![Waiter] = [NoCall EXCEPT !.id = ncalls + 1,
                                                       !.timeout = getTimeout(timeout)]]
    /\ pc' = [pc EXCEPT ![Waiter] = "events"]
    /\ wt' = [NoWait EXCEPT !.pc = "push", !.evts = evts, !.k = 1]
    /\ UNCHANGED <<ret, genVars, pipeVars, futures, readerVars, bound, fires, clock>>
    /\ UNCHANGED <<stopVars, unitVars, procVars, argVars, cutVars, raceVars>>

\* wait ends: it returns None, or raises the exception `kind`
waitEnds(kind) ==
    /\ pc' = [pc EXCEPT ![Waiter] = "idle"]
    /\ ret' = [ret EXCEPT ![Waiter] =
                 IF kind = "none"
                 THEN [NoRet EXCEPT !.kind = "return", !.id = call[Waiter].id]
                 ELSE IF kind = "GnuplotTimeoutError"
                 THEN [NoRet EXCEPT !.kind = kind, !.id = call[Waiter].id,
                          !.cause = <<"Waiting for " \o wt.evts[wt.timedK] \o "("
                                        \o Str(wt.evt_id) \o ") event">>,
                          !.timeout = call[Waiter].timeout]
                 ELSE [NoRet EXCEPT !.kind = kind, !.id = call[Waiter].id]]

\* An exception raised where wait is: before the outer try it leaves wait;
\* inside the outer try it goes to 'set term pop' (outer finally); raised by
\* requestOutput it goes to the unbind (inner finally); raised by the unbind
\* it goes to 'set term pop'; raised by 'set term pop' it leaves wait. An
\* exception raised in a finally clause replaces the pending one.
waitRaises(kind) ==
    CASE wt.pc \in {"push", "pop"} ->
            /\ waitEnds(kind)
            /\ wt' = [wt EXCEPT !.pc = "idle", !.exc = kind, !.gen = FALSE]
      [] wt.pc \in {"evtid", "term", "refresh", "bind", "unbind"} ->
            /\ wt' = [wt EXCEPT !.pc = "pop", !.exc = kind, !.gen = FALSE]
            /\ UNCHANGED <<pc, ret>>
      [] wt.pc = "waiting" ->
            /\ wt' = [wt EXCEPT !.pc = "unbind", !.exc = kind]
            /\ UNCHANGED <<pc, ret>>

\* The places of wait that call self.__genCmdId(): the five commands, sent
\* with cmd(..., timeout=NO_WAIT), and the draw of evt_id
GenPhases == {"push", "evtid", "term", "refresh", "bind", "unbind", "pop"}

\* self.__genCmdId() is called: the generator is entered, or it is executing
\* in another thread and ValueError is raised.
WaitGenEnter ==
    /\ wt.pc \in GenPhases
    /\ ~wt.gen
    /\ IF genRunning
       THEN /\ waitRaises("ValueError")
            /\ UNCHANGED genRunning
       ELSE /\ genRunning' = TRUE
            /\ wt' = [wt EXCEPT !.gen = TRUE]
            /\ UNCHANGED <<pc, ret>>
    /\ UNCHANGED <<call, ncalls, counter, pipeVars, futures, readerVars, bound,
                   fires, clock>>
    /\ UNCHANGED <<stopVars, unitVars, procVars, argVars, cutVars, raceVars>>

\* The line a command of wait sends, and what it does to the triggers of
\* the subprocess
lineOf(w) ==
    CASE w.pc = "push" -> Term("push")
      [] w.pc = "term" -> Term(evtOf(w))
      [] w.pc = "refresh" -> Term("refresh")
      [] w.pc = "bind" -> Bind(evtOf(w), tokenOf(w))
      [] w.pc = "unbind" -> Unbind(evtOf(w))
      [] w.pc = "pop" -> Term("pop")

boundAfter(b, line) ==
    IF line.op = "bind"
    THEN [b EXCEPT ![line.arg[1]] = Tail(line.arg)]
    ELSE b

\* try: requestOutput(...) finally: self.cmd(bind_evt + ' ""'): where wait
\* goes when requestOutput has returned or raised
afterWaiting(exc) == "unbind"

\* Where wait goes after the command it has just sent
phaseAfter(w) ==
    CASE w.pc = "push" -> "evtid"
      [] w.pc = "term" -> "refresh"
      [] w.pc = "refresh" -> "bind"
      [] w.pc = "bind" -> "request"
      [] w.pc = "unbind" -> IF w.exc = "none" /\ w.k < Len(w.evts)
                            THEN "evtid" ELSE "pop"
      [] w.pc = "pop" -> "idle"

\* The generator yields the next id: evt_id is set, or the command is sent
\* with NO_WAIT (one line written, no token, no read request) and wait goes
\* on; after 'set term pop' wait returns or raises the pending exception.
WaitGenYield ==
    /\ wt.gen
    /\ counter' = counter + 1
    /\ genRunning' = FALSE
    /\ IF wt.pc = "evtid"
       THEN /\ wt' = [wt EXCEPT !.gen = FALSE, !.evt_id = counter, !.pc = "term"]
            /\ UNCHANGED <<pc, ret, wire, bound>>
       ELSE /\ wire' = Append(wire, [line |-> lineOf(wt), by |-> Waiter,
                                     id |-> call[Waiter].id])
            /\ bound' = boundAfter(bound, lineOf(wt))
            /\ wt' = [wt EXCEPT !.gen = FALSE, !.pc = phaseAfter(wt),
                                !.k = IF wt.pc = "unbind" /\ phaseAfter(wt) = "evtid"
                                      THEN wt.k + 1 ELSE wt.k]
            /\ IF wt.pc = "pop"
               THEN waitEnds(wt.exc)
               ELSE UNCHANGED <<pc, ret>>
    /\ UNCHANGED <<call, ncalls, stdout, futures, readerVars, fires, clock>>
    /\ UNCHANGED <<stopVars, unitVars, procVars, argVars, cutVars, raceVars>>

\* requestOutput('Waiting for ...', '', evt_token, timeout) up to
\* future.waitDone: with NO_WAIT it returns at once, otherwise a Future is
\* put on the queue with an empty begin token and the event token.
WaitRequest ==
    /\ wt.pc = "request"
    /\ IF call[Waiter].timeout = NO_WAIT
       THEN /\ wt' = [wt EXCEPT !.pc = afterWaiting(wt.exc)]
            /\ UNCHANGED <<futures, requests>>
       ELSE /\ futures' = Append(futures, NewFuture)
            /\ requests' = Append(requests, [fut |-> Len(futures) + 1,
                                             begin |-> <<>>,
                                             done |-> tokenOf(wt)])
            /\ wt' = [wt EXCEPT !.pc = "waiting", !.fut = Len(futures) + 1,
                                !.start = clock]
    /\ UNCHANGED <<callerVars, genVars, pipeVars, doing, stopFlag, wpc, wreq,
                   buff, bound, fires, clock>>
    /\ UNCHANGED <<stopVars, unitVars, procVars, argVars, cutVars, raceVars>>

\* The timeout of the wait for the current event has elapsed
deadline(w, timeout) == isnumber(timeout) /\ clock >= w.start + timeout

\* future.waitDone returns: the event token has been read
WaitEvDone ==
    /\ wt.pc = "waiting"
    /\ call[Waiter].timeout = None \/ isnumber(call[Waiter].timeout)
    /\ futures[wt.fut].done
    /\ wt' = [wt EXCEPT !.pc = afterWaiting(wt.exc), !.seen = wt.seen + 1]
    /\ UNCHANGED <<callerVars, genVars, pipeVars, futures, readerVars, bound,
                   fires, clock>>
    /\ UNCHANGED <<stopVars, unitVars, procVars, argVars, cutVars, raceVars>>

\* future.waitDone raises FutureTimeoutError after `timeout` seconds:
\* requestOutput aborts the future and raises GnuplotTimeoutError
WaitEvTimeout ==
    /\ wt.pc = "waiting"
    /\ deadline(wt, call[Waiter].timeout)
    /\ ~futures[wt.fut].done
    /\ futures' = except(futures, wt.fut)
    /\ wt' = [wt EXCEPT !.pc = afterWaiting("GnuplotTimeoutError"),
                        !.exc = "GnuplotTimeoutError",
                        !.timedK = wt.k, !.tclock = clock]
    /\ UNCHANGED <<callerVars, genVars, pipeVars, readerVars, bound, fires, clock>>
    /\ UNCHANGED <<stopVars, unitVars, procVars, argVars, cutVars, raceVars>>

\* future.waitDone -> Event.wait raises TypeError for a timeout that is
\* neither None nor a number
WaitEvBadTimeout ==
    /\ wt.pc = "waiting"
    /\ ~(call[Waiter].timeout = None \/ isnumber(call[Waiter].timeout))
    /\ wt' = [wt EXCEPT !.pc = afterWaiting("TypeError"), !.exc = "TypeError"]
    /\ UNCHANGED <<callerVars, genVars, pipeVars, futures, readerVars, bound,
                   fires, clock>>
    /\ UNCHANGED <<stopVars, unitVars, procVars, argVars, cutVars, raceVars>>

\* An event fires in a window of the subprocess while a thread is in wait:
\* a registered trigger prints its token, an event without a trigger prints
\* nothing.
EventFires(e) ==
    /\ wt.pc # "idle"
    /\ fires.n < MaxFires
    /\ fires' = [n |-> fires.n + 1, printed |-> fires.printed \cup {bound[e]}]
    /\ stdout' = IF bound[e] # <<>> THEN stdout \o bound[e] \o <<NL>> ELSE stdout
    /\ UNCHANGED <<callerVars, genVars, wire, futures, readerVars, wt, bound, clock>>
    /\ UNCHANGED <<stopVars, unitVars, procVars, argVars, cutVars, raceVars>>

\* A second passes while the thread waits for an event with a timeout that
\* has not elapsed
Tick ==
    /\ clock < MaxClock
    /\ wt.pc = "waiting"
    /\ isnumber(call[Waiter].timeout)
    /\ ~deadline(wt, call[Waiter].timeout)
    /\ clock' = clock + 1
    /\ UNCHANGED <<callerVars, genVars, pipeVars, futures, readerVars, wt,
                   bound, fires>>
    /\ UNCHANGED <<stopVars, unitVars, procVars, argVars, cutVars, raceVars>>

Wait ==
    \/ \E evts \in EventLists : \E timeout \in EventTimeouts :
          WaitEnter(evts, timeout)
    \/ WaitGenEnter
    \/ WaitGenYield
    \/ WaitRequest
    \/ WaitEvDone
    \/ WaitEvTimeout
    \/ WaitEvBadTimeout

\* A second thread sends a command with NO_WAIT while the first one is in
\* wait, as the closer thread of wait's doctest does
NoWaitSender(t) ==
    \/ SendEnter(t, <<Cmd("set")>>, NO_WAIT)
    \/ GenYield(t)
    \/ SendLines(t)
    \/ RequestOutput(t)

WaitNext ==
    \/ Wait
    \/ NoWaitSender("b")
    \/ Worker
    \/ \E e \in Events : EventFires(e)
    \/ Tick

WaitSpec == Init /\ [][WaitNext]_vars

\* A second thread sends a synchronized command while the first one waits,
\* with a timeout of one second, for one event that does not fire
SyncSender(t) ==
    \/ SendEnter(t, <<Cmd("print p")>>, 5)
    \/ GenYield(t)
    \/ SendBeginToken(t)
    \/ SendLines(t)
    \/ SendDoneToken(t)
    \/ RequestOutput(t)
    \/ WaitDone(t)
    \/ WaitTimeout(t)

QueueNext ==
    \/ WaitEnter(<<"e1">>, 1)
    \/ WaitGenEnter
    \/ WaitGenYield
    \/ WaitRequest
    \/ WaitEvTimeout
    \/ SyncSender("b")
    \/ Worker
    \/ Tick

QueueSpec == Init /\ [][QueueNext]_vars

\* ------------------------------- GnuplotProcess.stop and the reader thread
\* One call of gp.stop() while the reader thread serves requests: the steps
\* of _GnuplotOutputReader.stop interleave with those of __run, and the
\* stream the task reads has been closed by stop before the reader is asked
\* to stop.

\* Number of read requests submitted over a run of JoinSpec
MaxJoinRequests == 1

\* gp.stop() is called
JoinStopEnter ==
    /\ tpc = "idle"
    /\ nterm = 0
    /\ nterm' = 1
    /\ tpc' = "closeIn"
    /\ UNCHANGED <<outcomes, log, backend, stdinClosed, stdoutClosed, names>>
    /\ UNCHANGED <<counter, wire, futures, requests, doing, stopFlag>>
    /\ UNCHANGED outsideProc

\* stop: self.__reader.stop(), one step of it
JoinReaderStop ==
    /\ tpc = "reader"
    /\ ReaderStop

\* stop: self.__reader.stop() returns. The log keeps where the reader thread
\* was at that moment.
JoinReaderStopped ==
    /\ tpc = "reader"
    /\ spc = "done"
    /\ log' = Append(log, [op |-> "stop reader", call |-> nterm,
                           exited |-> backend = "exited", worker |-> wpc])
    /\ tpc' = "poll"
    /\ UNCHANGED <<nterm, outcomes, backend, stdinClosed, stdoutClosed, names>>
    /\ UNCHANGED <<counter, wire, futures, requests, doing, stopFlag>>
    /\ UNCHANGED outsideProc

\* c = self.__input.read(1) is called: on a stream that stop has closed it
\* raises ValueError, which leaves the task, Future.__call and __run and ends
\* the thread; on an open stream the read begins.
ReadEnter ==
    /\ wpc = "read"
    /\ wpc' = IF stdoutClosed THEN "crashed" ELSE "reading"
    /\ UNCHANGED restVars
    /\ UNCHANGED <<callerVars, genVars, pipeVars, futures, requests, doing,
                   stopFlag, wreq, buff>>

\* A read that has begun returns one character, whether or not the stream
\* object was closed meanwhile; buff += c.decode(errors='replace') and the
\* loop condition is tested again.
ReadChar ==
    /\ wpc = "reading"
    /\ stdout # <<>>
    /\ buff' = Append(buff, Head(stdout))
    /\ stdout' = Tail(stdout)
    /\ wpc' = IF keepReading(Append(buff, Head(stdout)), wreq.done,
                             futures[wreq.fut].abort)
              THEN "read" ELSE "return"
    /\ UNCHANGED restVars
    /\ UNCHANGED <<callerVars, genVars, wire, futures, requests, doing,
                   stopFlag, wreq>>

\* A read that has begun returns nothing once the subprocess has exited and
\* all it printed was read: the end of the pipe. `if c:` skips the append
\* and the loop condition is tested again.
ReadEnd ==
    /\ wpc = "reading"
    /\ stdout = <<>>
    /\ backend = "exited"
    /\ wpc' = IF keepReading(buff, wreq.done, futures[wreq.fut].abort)
              THEN "read" ELSE "return"
    /\ UNCHANGED restVars
    /\ UNCHANGED <<callerVars, genVars, pipeVars, futures, requests, doing,
                   stopFlag, wreq, buff>>

\* requestOutput of a caller whose lines were written before the input
\* stream was closed; only a running subprocess answers
JoinSubmit(t) ==
    \E timeout \in {None, 5} : \E answered \in BOOLEAN :
        /\ Len(futures) < MaxJoinRequests
        /\ answered => backend = "running"
        /\ SubmitRequest(t, timeout, answered)

JoinStop ==
    \/ JoinStopEnter
    \/ StopCloseStdin
    \/ StopCloseStdout
    \/ JoinReaderStop
    \/ JoinReaderStopped
    \/ StopPoll
    \/ StopTerminate
    \/ StopKill
    \/ StopJoin

JoinWorker ==
    \/ WorkerLoop
    \/ WorkerGet
    \/ WorkerGetNone
    \/ WorkerTag
    \/ WorkerCall
    \/ ReadEnter
    \/ ReadChar
    \/ ReadEnd
    \/ WorkerReturn
    \/ WorkerSetDone
    \/ WorkerUntag

JoinNext ==
    \/ \E t \in Threads : JoinSubmit(t)
    \/ \E t \in Threads : WaitDone(t)
    \/ \E t \in Threads : WaitTimeout(t)
    \/ JoinWorker
    \/ JoinStop
    \/ BackendExits

\* stop has sent SIGKILL to the subprocess
Killed == \E i \in 1..Len(log) : log[i].op = "kill"

\* The reader thread and the thread inside stop run whenever they can, and a
\* subprocess that was killed exits. No caller is obliged to do anything,
\* and a subprocess that was not killed may run for ever.
JoinFairness ==
    /\ WF_vars(JoinWorker)
    /\ WF_vars(JoinStop)
    /\ WF_vars(Killed /\ BackendExits)

JoinSpec == Init /\ [][JoinNext]_vars /\ JoinFairness

\* ------------------------------------ one Future invoked by several threads
\* The frame of the steps of an invocation by thread t
raceFrame ==
    /\ UNCHANGED <<callerVars, ipc, iarg, firstArg, naborts>>
    /\ UNCHANGED outsideRace

\* Future.__call__: self.__call(*args, **kwargs). The attribute is looked up:
\* it is Future.__call until some thread has replaced it, __cantCallTwice
\* afterwards, which raises FutureStateError.
RaceInvoke(t, arg) ==
    /\ invoker.at[t] = "idle"
    /\ ninv < MaxInvocations
    /\ ninv' = ninv + 1
    /\ IF futures[1].called
       THEN /\ nraised' = nraised + 1
            /\ UNCHANGED invoker
       ELSE /\ invoker' = [invoker EXCEPT !.at[t] = "lock", !.arg[t] = arg]
            /\ UNCHANGED nraised
    /\ UNCHANGED <<futures, runs>>
    /\ raceFrame

\* Future.__call: with self.__lock: self.__call = self.__cantCallTwice
RaceSwap(t) ==
    /\ invoker.at[t] = "lock"
    /\ futures' = [futures EXCEPT ![1].called = TRUE]
    /\ invoker' = [invoker EXCEPT !.at[t] = "task"]
    /\ UNCHANGED <<runs, ninv, nraised>>
    /\ raceFrame

\* Future.__call: self.__task(self.__abort, *args, **kwargs) is entered
RaceRunTask(t) ==
    /\ invoker.at[t] = "task"
    /\ runs' = runs + 1
    /\ invoker' = [invoker EXCEPT !.at[t] = "store"]
    /\ UNCHANGED <<futures, ninv, nraised>>
    /\ raceFrame

\* Future.__call: the task returns and self.__result is assigned
RaceStore(t) ==
    /\ invoker.at[t] = "store"
    /\ futures' = [futures EXCEPT ![1].hasResult = TRUE,
                                  ![1].result = Task(invoker.arg[t])]
    /\ invoker' = [invoker EXCEPT !.at[t] = "setdone", !.stores = @ + 1]
    /\ UNCHANGED <<runs, ninv, nraised>>
    /\ raceFrame

\* Future.__call: self.__done(True)
RaceSetDone(t) ==
    /\ invoker.at[t] = "setdone"
    /\ futures' = [futures EXCEPT ![1].done = TRUE]
    /\ invoker' = [invoker EXCEPT !.at[t] = "idle"]
    /\ UNCHANGED <<runs, ninv, nraised>>
    /\ raceFrame

RaceNext ==
    \E t \in Threads :
        \/ \E arg \in Args : RaceInvoke(t, arg)
        \/ RaceSwap(t)
        \/ RaceRunTask(t)
        \/ RaceStore(t)
        \/ RaceSetDone(t)

RaceSpec == FutureInit /\ [][RaceNext]_vars

\* ================================================================ claims
\* Text helpers of the claims
RECURSIVE outputOf(_)
outputOf(lines) ==
    IF lines = <<>> THEN <<>>
    ELSE GnuplotOutput(Head(lines)) \o outputOf(Tail(lines))

\* The error pattern matches somewhere in `text`
Matches(text) == \E i \in 1..Len(text) : ErrorAt(text, i)

\* The chunk of an error report that carries the line number and the message
ReportSeen(text) == \E i \in 1..Len(text) : text[i] = ReportLine

\* Thread t has finished the call described by call[t], as ret[t] tells
Finished(t) == pc[t] = "idle" /\ call[t].id # 0 /\ ret[t].id = call[t].id

\* The call of thread t is a synchronized one with a finite timeout
FiniteSync(t) ==
    call[t].id # 0 /\ isnumber(call[t].timeout) /\ call[t].timeout # NO_WAIT

\* What send gives for the call of thread t when the reader is handed the
\* output of that batch and nothing else
AloneResult(t) ==
    consumed(beginTokenOf(t) \o <<NL>> \o outputOf(call[t].lines)
               \o doneTokenOf(t) \o <<NL>>,
             beginTokenOf(t), doneTokenOf(t)).result

OwnOutcome(t) ==
    IF Matches(AloneResult(t))
    THEN ret[t].kind = "GnuplotError" /\ ret[t].cause = <<call[t].lines[1].arg[1]>>
    ELSE /\ ret[t].kind = "return"
         /\ ret[t].value = IF AloneResult(t) = <<>> THEN PyNone
                           ELSE PyStr(AloneResult(t))

\* The reader thread cannot move: it waits for a request or for a character
ReaderBlocked ==
    \/ wpc = "get" /\ requests = <<>>
    \/ wpc = "read" /\ stdout = <<>>

\* Both threads are in a synchronized send with a finite timeout, with
\* different lines, each has got its command id, and no timeout has fired
TwoConcurrentSends ==
    /\ \A t \in Threads : FiniteSync(t) /\ call[t].cmd_id >= 0
    /\ call["a"].lines # call["b"].lines
    /\ \A t \in Threads : ~(Finished(t) /\ ret[t].kind = "GnuplotTimeoutError")

\* C1: when two threads call send concurrently with different lines and a
\* finite timeout, both calls return, each with the output of its own batch:
\* no call is left waiting for a done token that nobody will ever read, and
\* a call that has ended has the outcome of its own batch.
C1_BothReturnOwnOutput ==
    TwoConcurrentSends =>
        \A t \in Threads :
            /\ ~(pc[t] = "wait" /\ ReaderBlocked /\ \A u \in Threads : pc[u] \in {"idle", "wait"})
            /\ Finished(t) => OwnOutcome(t)

\* C2: a send with a finite timeout ends by returning a result or by raising
\* GnuplotTimeoutError or GnuplotError, and in no other way.
C2_ReturnsOrRaisesKnownError ==
    \A t \in Threads :
        (Finished(t) /\ FiniteSync(t)) =>
            ret[t].kind \in {"return", "GnuplotError", "GnuplotTimeoutError"}

\* C3: requests are served in submission order: when the future of a request
\* has been invoked, the future of every request submitted before it has been
\* invoked and has returned.
C3_ServedInSubmissionOrder ==
    \A r1, r2 \in 1..Len(futures) :
        (r1 < r2 /\ futures[r2].called) =>
            (futures[r1].called /\ futures[r1].hasResult /\ futures[r1].done)

C3_Witness ==
    /\ Len(futures) = 2
    /\ call["b"].fut = 1
    /\ call["a"].fut = 2
    /\ futures[2].called

\* C4: at most one request is in progress: the in-progress set holds at most
\* the request the reader thread has dequeued, from the time it is tagged
\* until its task has returned, and it is empty again before the next
\* request is taken.
C4_OneRequestInProgress ==
    /\ Cardinality(doing) <= 1
    /\ \A r \in doing :
          /\ r = wreq.fut
          /\ wpc \in {"call", "read", "return", "setdone", "untag"}
    /\ wpc \in {"loop", "get", "tag"} => doing = {}
    /\ wpc \in {"call", "read", "return", "setdone"} => doing = {wreq.fut}

C4_Witness ==
    /\ wpc = "read"
    /\ doing = {1}
    /\ Len(requests) = 1

\* C5: the command ids drawn from the generator are pairwise distinct and no
\* call to the generator fails.
C5_DistinctIdsNoFailure ==
    /\ \A t \in Threads : ~(Finished(t) /\ ret[t].kind = "ValueError")
    /\ \A t, u \in Threads :
          (t # u /\ call[t].cmd_id >= 0 /\ call[u].cmd_id >= 0) =>
              /\ call[t].cmd_id # call[u].cmd_id
              /\ beginTokenOf(t) # beginTokenOf(u)
              /\ doneTokenOf(t) # doneTokenOf(u)

\* C6: the lines that reach the subprocess are a concatenation of whole
\* batches: between the begin token announcement and the done token
\* announcement of a call there is no line of another call.
C6_WholeBatchesOnTheWire ==
    \A i, j \in 1..Len(wire) :
        (/\ i < j
         /\ wire[i].id = wire[j].id
         /\ wire[i].line.op = "printerr"
         /\ wire[j].line.op = "printerr") =>
            \A m \in i..j : wire[m].id = wire[i].id

\* C7: a send whose done token is not read within its finite timeout T raises
\* GnuplotTimeoutError with timeout T and a cause that names the command, and
\* the abort flag of its future is set when the error reaches the caller.
C7_TimeoutErrorCarriesTimeoutAndAborts ==
    \A t \in Threads :
        (Finished(t) /\ ret[t].kind = "GnuplotTimeoutError") =>
            /\ FiniteSync(t)
            /\ ret[t].timeout = call[t].timeout
            /\ ret[t].cause = <<"Sending " \o beginTokenOf(t)[1]>>
            /\ call[t].fut \in 1..Len(futures)
            /\ futures[call[t].fut].abort

C7_Witness ==
    \E t \in Threads :
        /\ Finished(t)
        /\ ret[t].kind = "GnuplotTimeoutError"
        /\ ret[t].timeout = 5
        /\ ~futures[call[t].fut].done

\* C8: when the done token is read in time, send raises GnuplotError, with
\* the command, the line number and the message of the report, if and only if
\* the error pattern matches the retrieved text; with no match it returns the
\* retrieved text, or None when that text is empty.
C8_ErrorIffPatternMatches ==
    \A t \in Threads :
        (/\ Finished(t)
         /\ call[t].fut # 0
         /\ ret[t].kind \in {"return", "GnuplotError"}) =>
            LET text == futures[call[t].fut].result
            IN  /\ futures[call[t].fut].done
                /\ ret[t].kind = "GnuplotError" <=> Matches(text)
                /\ ret[t].kind = "GnuplotError" =>
                      /\ ret[t].line = 0
                      /\ ret[t].msg = "invalid command"
                      /\ \E i \in 1..Len(text) :
                            /\ ErrorAt(text, i)
                            /\ ret[t].cause = IF i > 1 /\ text[i - 1] = ReportHead("bogus")
                                              THEN <<"bogus">> ELSE <<"None">>
                /\ ret[t].kind = "return" =>
                      ret[t].value = IF text = <<>> THEN PyNone ELSE PyStr(text)

C8_Witness ==
    /\ Finished("a")
    /\ ret["a"].kind = "GnuplotError"
    /\ ret["a"].cause = <<"bogus">>
    /\ Finished("b")
    /\ ret["b"].kind = "return"
    /\ ret["b"].value = PyStr(<<"p">>)

\* C9: every error report the subprocess prints for a synchronized
\* batch is raised as GnuplotError to a caller: none is put aside as
\* unsynchronized output, and none is in the result of a request whose caller
\* ends otherwise than by GnuplotError.
C9_EveryReportRaised ==
    \A r \in 1..Len(futures) :
        futures[r].hasResult =>
            /\ ~ReportSeen(futures[r].unsync)
            /\ \A t \in Threads :
                  (Finished(t) /\ call[t].fut = r /\ ReportSeen(futures[r].result)) =>
                      ret[t].kind = "GnuplotError"

\* C10: a send with NO_WAIT writes only the caller's lines, enqueues no read
\* request, and returns None without raising.
C10_NoWaitReturnsNone ==
    \A t \in Threads :
        (Finished(t) /\ call[t].timeout = NO_WAIT) =>
            /\ ret[t].kind = "return"
            /\ ret[t].value = PyNone
            /\ call[t].fut = 0
            /\ \A i \in 1..Len(wire) :
                  wire[i].id = call[t].id => wire[i].line.op = "cmd"

\* C11: once stop has returned, every request that was submitted before stop
\* was called and whose task has not returned has its abort flag set,
\* wherever the request was when stop ran.
C11_StopAbortsEveryPendingRequest ==
    spc = "done" =>
        \A r \in 1..Len(futures) :
            (r <= stopAt /\ ~futures[r].hasResult) => futures[r].abort

\* C12: when the subprocess has closed its output and the reading task has
\* reached the end of the file without the done token, the task eventually
\* leaves its reading loop and returns.
C12_EofEndsTheRead ==
    (eof /\ wpc = "read" /\ stdout = <<>>) ~> (wpc # "read")

\* C13: a caller blocked in waitDone(None) on a future that has been aborted
\* is eventually released.
C13_AbortReleasesWaiter ==
    \A t \in Threads :
        (pc[t] = "wait" /\ call[t].timeout = None /\ futures[call[t].fut].abort)
            ~> (pc[t] # "wait")

\* C14: the wrapped task runs exactly once, on the first invocation; every
\* later invocation raises FutureStateError, does not run the task and leaves
\* the stored result as the first invocation made it.
C14_TaskRunsOnceThenStateError ==
    /\ runs = IF ninv = 0 \/ (ninv = 1 /\ ipc = "task") THEN 0 ELSE 1
    /\ ipc = "idle" => nraised = IF ninv = 0 THEN 0 ELSE ninv - 1
    /\ ipc # "idle" => (ninv = 1 /\ nraised = 0)
    /\ futures[1].hasResult => futures[1].result = Task(firstArg)

C14_Witness ==
    /\ ninv = 3
    /\ nraised = 2
    /\ runs = 1
    /\ iarg # firstArg
    /\ futures[1].hasResult

\* C15: waitDone returns the value the task returned, and only once the
\* task has signalled completion; FutureTimeoutError is raised only to a
\* caller that gave a number as timeout, never with None; the result is
\* stored before the completion event is set.
C15_WaitDoneReturnsStoredResult ==
    /\ futures[1].done => futures[1].hasResult
    /\ \A t \in Threads :
          Finished(t) =>
              /\ ret[t].kind \in {"return", "FutureTimeoutError"}
              /\ ret[t].kind = "return" =>
                    /\ futures[1].done
                    /\ ret[t].value = PyStr(Task(firstArg))
              /\ ret[t].kind = "FutureTimeoutError" =>
                    /\ isnumber(call[t].timeout)
                    /\ ret[t].timeout = call[t].timeout

C15_Witness ==
    /\ Finished("a")
    /\ call["a"].timeout = None
    /\ ret["a"].kind = "return"
    /\ ret["a"].value = PyStr(<<"y">>)
    /\ Finished("b")
    /\ ret["b"].kind = "FutureTimeoutError"
    /\ ret["b"].timeout = 5

\* C16: a call of abort only sets the abort flag: it changes nothing else of
\* the Future, of the invoking thread or of the waiting threads, it changes
\* nothing at all when the flag is already set, and a waitDone that returns
\* afterwards still returns the stored result.
C16_AbortOnlySetsTheFlag ==
    [][/\ naborts' # naborts =>
             /\ futures' = [futures EXCEPT ![1].abort = TRUE]
             /\ futures[1].abort => futures' = futures
             /\ UNCHANGED <<ipc, iarg, runs, ninv, nraised, firstArg, callerVars>>
       /\ \A t \in Threads :
             (pc[t] = "wait" /\ pc'[t] = "idle" /\ ret'[t].kind = "return") =>
                 /\ futures[1].hasResult
                 /\ ret'[t].value = PyStr(futures[1].result)]_vars

C16_Witness ==
    /\ naborts = 2
    /\ futures[1].abort
    /\ futures[1].done
    /\ futures[1].result = <<"x">>
    /\ \E t \in Threads :
          Finished(t) /\ ret[t].kind = "return" /\ ret[t].value = PyStr(<<"x">>)

\* C17: after a call of terminate that returned, a second call raises no
\* error, writes nothing to the subprocess, sends it no termination or kill
\* request, and leaves the streams closed and the reader stopped and joined,
\* as the first call did.
C17_SecondTerminateDoesNothing ==
    (Len(outcomes) >= 2 /\ outcomes[1] = "return") =>
        /\ outcomes[2] = "return"
        /\ \A i \in 1..Len(wire) : wire[i].id # 2
        /\ \A i \in 1..Len(log) :
              log[i].call = 2 => log[i].op \notin {"terminate", "kill"}
        /\ stdinClosed
        /\ stdoutClosed
        /\ stopFlag
        /\ wpc = "exit"

\* The place of each step of stop in the order the claim C18 gives
StepRank(op) ==
    CASE op = "close stdin" -> 1
      [] op = "close stdout" -> 2
      [] op = "stop reader" -> 3
      [] op = "terminate" -> 4
      [] op = "kill" -> 5
      [] op = "join" -> 6

\* C18: stop closes the input stream, then the output stream, then stops
\* the reader, then escalates; it asks for termination only when the
\* subprocess is still running once the first grace period is over, kills
\* only after that and only a subprocess still running once the second grace
\* period is over: no request goes to a subprocess that has already exited.
C18_StopEscalatesOnlyARunningSubprocess ==
    /\ \A i, j \in 1..Len(log) :
          (i < j /\ log[i].call = log[j].call) =>
              StepRank(log[i].op) < StepRank(log[j].op)
    /\ \A j \in 1..Len(log) :
          log[j].op = "kill" =>
              \E i \in 1..(j - 1) : log[i].call = log[j].call /\ log[i].op = "terminate"
    /\ \A i \in 1..Len(log) :
          log[i].op \in {"terminate", "kill"} => ~log[i].exited

\* A `sync` argument the documentation allows: a pair whose components are
\* each PRINTERR or OSECHO
DocumentedSync(sync) ==
    Len(sync) = 2 /\ \A i \in 1..Len(sync) : sync[i] \in {"printerr", "echo"}

\* This call of a thread was a send (not a wait)
IsSend(t) == call[t].id # 0 /\ call[t].lines # <<>>

\* C19: send accepts each of the four pairs of PRINTERR and OSECHO (it does
\* not raise TypeError for them), announces the begin token with the first
\* mechanism and the done token with the second, and raises TypeError for
\* any other `sync`.
C19_EverySyncPairAccepted ==
    \A t \in Threads :
        (Finished(t) /\ IsSend(t)) =>
            /\ DocumentedSync(csync[t]) =>
                  (ret[t].kind = "TypeError" => ~isnumber(call[t].timeout))
            /\ ~DocumentedSync(csync[t]) => ret[t].kind = "TypeError"
            /\ (DocumentedSync(csync[t]) /\ call[t].fut # 0) =>
                  \E i, j \in 1..Len(wire) :
                      /\ i < j
                      /\ wire[i].id = call[t].id /\ wire[j].id = call[t].id
                      /\ wire[i].line = [op |-> csync[t][1], arg |-> beginTokenOf(t)]
                      /\ wire[j].line = [op |-> csync[t][2], arg |-> doneTokenOf(t)]

\* C20: a send or wait that raises TypeError for a bad argument has done no
\* input or output: it wrote no line, drew no command id and enqueued no
\* read request.
C20_BadArgumentRaisedBeforeAnyIO ==
    \A t \in Threads :
        (Finished(t) /\ ret[t].kind = "TypeError") =>
            /\ \A i \in 1..Len(wire) : wire[i].id # call[t].id
            /\ call[t].cmd_id = -1
            /\ call[t].fut = 0

\* This call of a thread was a wait with an empty event list
IsWaitNoEvents(t) == call[t].id # 0 /\ call[t].lines = <<>>

\* C24: wait with an empty event list sleeps `timeout` seconds and returns
\* None when the effective timeout is a positive number, and raises
\* TypeError without sleeping otherwise (None, zero, not a number); in both
\* cases nothing is written to the subprocess and nothing is asked of the
\* reader.
C24_NoEventsSleepsOrTypeError ==
    \A t \in Threads :
        (Finished(t) /\ IsWaitNoEvents(t)) =>
            LET T == call[t].timeout
                positive == T \notin {None, NotANumber} /\ T > 0
                naps == {i \in 1..Len(slept) : slept[i].id = call[t].id}
            IN  /\ \A i \in 1..Len(wire) : wire[i].id # call[t].id
                /\ call[t].cmd_id = -1 /\ call[t].fut = 0
                /\ positive =>
                      /\ ret[t].kind = "return" /\ ret[t].value = PyNone
                      /\ \E i \in naps : naps = {i} /\ slept[i].seconds = T
                /\ ~positive => (ret[t].kind = "TypeError" /\ naps = {})

\* A wait that slept has been followed by a wait that raised TypeError
C24_Witness ==
    /\ Finished("a") /\ IsWaitNoEvents("a")
    /\ ret["a"].kind = "TypeError"
    /\ call["a"].timeout = NO_WAIT
    /\ \E i \in 1..Len(slept) : slept[i].seconds = 5

\* The lines the call of thread t has written to the subprocess, in order
WrittenBy(t) ==
    LET mine == SelectSeq(wire, LAMBDA w : w.id = call[t].id /\ w.by = t)
    IN  [i \in 1..Len(mine) |-> mine[i].line]

\* What a synchronized send of thread t writes in all
Announced(t) ==
    <<PRINTERR(beginTokenOf(t))>> \o call[t].lines \o <<PRINTERR(doneTokenOf(t))>>

IsPrefix(s, t) == Len(s) <= Len(t) /\ s = SubSeq(t, 1, Len(s))

Chomp(s) == IF s # <<>> /\ s[Len(s)] = NL THEN SubSeq(s, 1, Len(s) - 1) ELSE s

\* C26: when the read has completed on the done token, the result is exactly
\* the text between the begin token line and the done token line, and the
\* text before the begin token is the unsynchronized part (up to the line
\* end that closes it), not a part of the result.
C26_ResultIsTheTextBetweenTheTokens ==
    (futures[1].hasResult /\ ~futures[1].abort) =>
        /\ futures[1].result = given.text
        /\ futures[1].unsync = Chomp(given.pre)

\* The send of thread t ended with what its read request gave
EndedOnResult(t) ==
    /\ Finished(t) /\ call[t].fut # 0
    /\ ret[t].kind \in {"return", "GnuplotError"}

\* C27: the text found before the begin token of a request never decides
\* how the send ends and never changes its result: the send raises exactly
\* when the error pattern matches in the text after the begin token, returns
\* that text otherwise, and that text is the one the read would have given
\* without the text before the begin token.
C27_UnsyncTextOnlyLogged ==
    /\ \A t \in Threads :
          EndedOnResult(t) =>
              LET f == futures[call[t].fut]
              IN  /\ ret[t].unsync = f.unsync
                  /\ (ret[t].kind = "GnuplotError") = parseError(f.result).found
                  /\ ret[t].kind = "return" =>
                        ret[t].value = IF f.result = <<>> THEN PyNone
                                       ELSE PyStr(f.result)
    /\ wpc \in {"setdone", "untag"} =>
          LET start == Find(buff, wreq.begin \o <<NL>>)
          IN  start > 0 =>
                  futures[wreq.fut].result =
                      consumed(SubSeq(buff, start + 1, Len(buff)),
                               wreq.begin, wreq.done).result

\* A send has returned normally with an error report in the text before its
\* begin token
C27_Witness ==
    \E t \in Threads :
        /\ EndedOnResult(t)
        /\ ret[t].kind = "return"
        /\ Matches(ret[t].unsync)

\* C28: a request that completes while stop runs: no exception ends the
\* reader thread, the in-progress set holds at most the request the reader
\* is serving and is empty once the reader has untagged it, and nothing
\* (an abort by stop in particular) changes a result that has been stored
\* or takes the completion back.
C28_UntagRaceIsHarmless ==
    /\ [](/\ wpc # "crashed"
          /\ doing \subseteq {wreq.fut}
          /\ wpc \in {"loop", "get", "exit"} => doing = {})
    /\ [][\A r \in 1..Len(futures) :
             /\ futures[r].hasResult =>
                   /\ futures'[r].hasResult
                   /\ futures'[r].result = futures[r].result
                   /\ futures'[r].unsync = futures[r].unsync
             /\ futures[r].done => futures'[r].done]_vars

\* stop has returned, the reader has left its loop, and the request it
\* served last read its done token, was aborted by stop and gave its result
\* to a caller that waited without a timeout
C28_Witness ==
    /\ spc = "done" /\ wpc = "exit" /\ doing = {}
    /\ wreq.fut # 0
    /\ futures[wreq.fut].abort /\ futures[wreq.fut].done
    /\ EndsWith(buff, wreq.done \o <<NL>>)
    /\ \E t \in Threads :
          /\ Finished(t) /\ call[t].fut = wreq.fut /\ call[t].timeout = None
          /\ ret[t].kind = "return"

\* The waiting thread has left a wait for events
WaitEnded == Finished(Waiter) /\ wt.evts # <<>> /\ wt.pc = "idle"

\* The lines the wait has written that register a trigger for its j-th event
BindsOf(j) ==
    {i \in 1..Len(wire) :
        /\ wire[i].by = Waiter /\ wire[i].id = call[Waiter].id
        /\ wire[i].line.op = "bind" /\ Len(wire[i].line.arg) > 1
        /\ wire[i].line.arg[1] = wt.evts[j]}

\* C21: when wait has returned or raised, no trigger is registered in the
\* subprocess: every bind it sent has been followed by its unbind.
C21_NoTriggerLeftRegistered ==
    WaitEnded => \A e \in Events : bound[e] = <<>>

\* C22: the trigger of the k-th event is registered only when the k-1
\* events before it have been observed; only the event being waited for has
\* a trigger, so any other event that fires prints nothing; and an event is
\* counted as observed only if it fired while its trigger was registered.
C22_EventsWaitedInListOrder ==
    /\ [](\A e \in Events :
             (wt.pc # "idle" /\ bound[e] # <<>>) => e = evtOf(wt))
    /\ [][/\ (wt.pc = "bind" /\ wt'.pc = "request") => wt.seen = wt.k - 1
          /\ wt'.seen = wt.seen + 1 => tokenOf(wt) \in fires.printed]_vars

\* C23: with a timeout T that is a positive number, the wait for one event
\* never lasts longer than T; the event whose token has not been read after
\* T seconds ends the wait, exactly T seconds after the wait for that event
\* began, with GnuplotTimeoutError; no event listed after it is registered.
C23_TimeoutAppliesToEachEvent ==
    LET T == call[Waiter].timeout
    IN  (isnumber(T) /\ T > 0) =>
            /\ wt.pc = "waiting" => clock <= wt.start + T
            /\ wt.timedK # 0 => wt.tclock = wt.start + T
            /\ (WaitEnded /\ wt.timedK # 0) =>
                  /\ ret[Waiter].kind = "GnuplotTimeoutError"
                  /\ ret[Waiter].timeout = T
                  /\ \A j \in 1..Len(wt.evts) : j > wt.timedK => BindsOf(j) = {}

\* C30: a synchronized send queued while the reader serves a wait that times
\* out ends as it would alone: with the outcome of its own batch, or with
\* GnuplotTimeoutError carrying its own timeout.
C30_QueuedRequestKeepsItsOutcome ==
    (Finished("b") /\ call["b"].fut # 0 /\ wt.timedK # 0) =>
        \/ OwnOutcome("b")
        \/ /\ ret["b"].kind = "GnuplotTimeoutError"
           /\ ret["b"].timeout = call["b"].timeout

\* stop has set the stop flag and put the sentinel on the queue
SentinelPut == stopFlag /\ spc \in {"doing", "done"}

\* The reader thread has ended: __run left its loop, by the loop test or by
\* an exception
WorkerEnded == wpc \in {"exit", "crashed"}

\* gp.stop() has returned from self.__reader.join()
Joined == Len(log) > 0 /\ log[Len(log)].op = "join"

\* C29: once stop has set the stop flag and put the sentinel on the queue,
\* the reader thread eventually ends, wherever it was (blocked in the queue
\* get, between two requests or inside a request), and GnuplotProcess.stop
\* eventually returns from joining it.
C29_WorkerEndsAndStopJoins ==
    /\ SentinelPut ~> WorkerEnded
    /\ SentinelPut ~> Joined

\* stop has returned from the join, and the reader thread was blocked in a
\* read for a request when reader.stop() returned
C29_Witness ==
    /\ Joined
    /\ \E i \in 1..Len(log) : log[i].op = "stop reader" /\ log[i].worker = "reading"

\* The positions, among the lines the wait has written, of the line `l`
LinesOf(l) == {i \in 1..Len(WrittenBy(Waiter)) : WrittenBy(Waiter)[i] = l}

\* C40: when a wait with events has returned or raised after writing
\* 'set term push', it has written exactly one 'set term pop', and that is
\* the last line it wrote.
C40_PushMatchedByOnePop ==
    (WaitEnded /\ LinesOf(Term("push")) # {})
        => /\ Cardinality(LinesOf(Term("push"))) = 1
           /\ LinesOf(Term("pop")) = {Len(WrittenBy(Waiter))}

\* C35: a call of _GnuplotOutputReader.stop that has set the stop flag always
\* gets to the end: it never stays blocked on the request queue, it puts the
\* sentinel and purges the in-progress set.
C35_ReaderStopTerminates == (spc \in {"purge", "purgeget"}) ~> (spc = "done")

\* C36: a caller that is blocked on the reader while the stop flag is set,
\* whether its request was submitted before stop ran or after the reader
\* stopped, and whatever its timeout, eventually returns or raises.
C36_ShutdownReleasesEveryCaller ==
    \A t \in Threads : (stopFlag /\ pc[t] = "wait") ~> (pc[t] # "wait")

\* C38: a request whose future is already aborted when the worker invokes it
\* goes straight to its return with an empty buffer and the stream untouched;
\* and the stream loses characters only in a step of the reading loop, which
\* such a request never enters.
C38_AbortedBeforeStartReadsNothing ==
    [][/\ (wpc = "call" /\ wpc' # "call" /\ futures[wreq.fut].abort) =>
             (wpc' = "return" /\ buff' = <<>> /\ stdout' = stdout)
       /\ (wpc # "read") => IsPrefix(stdout, stdout')]_vars

\* The worker has invoked a request that timed out while it was queued: the
\* task is at its return without having read, and the output printed for
\* the requests after it is on the stream
C38_Witness ==
    /\ wpc = "return"
    /\ buff = <<>>
    /\ futures[wreq.fut].abort
    /\ stdout # <<>>
    /\ wreq.fut > 1

\* C34: a synchronized call returns a result only if the read of its request
\* ended on the done token of its command; a read cut short by an abort never
\* gives the caller a normal result.
C34_ResultOnlyAfterDoneToken ==
    \A t \in Threads :
        (Finished(t) /\ call[t].fut # 0 /\ ret[t].kind = "return") =>
            futures[call[t].fut].sawDone

\* The place on the wire of the begin-token line of the call of thread t
\* (0 when it is not written)
BeginOnWire(t) ==
    LET at == {i \in 1..Len(wire) :
                  /\ wire[i].by = t /\ wire[i].id = call[t].id
                  /\ wire[i].line = PRINTERR(beginTokenOf(t))}
    IN  IF at = {} THEN 0 ELSE CHOOSE i \in at : TRUE

\* C33: of two synchronized calls that have both enqueued their read request,
\* the one whose batch was written first has enqueued first.
C33_QueueOrderIsWireOrder ==
    \A t, u \in Threads :
        (/\ call[t].fut # 0 /\ call[u].fut # 0
         /\ BeginOnWire(t) > 0
         /\ BeginOnWire(t) < BeginOnWire(u)) =>
            call[t].fut < call[u].fut

\* C37: when several threads invoke the same Future at the same time, the
\* task is entered at most once and the result is assigned at most once; once
\* all invocations have ended, all but one have raised FutureStateError.
C37_ConcurrentInvocationsRunTaskOnce ==
    /\ runs <= 1
    /\ invoker.stores <= 1
    /\ (ninv > 0 /\ \A t \in Threads : invoker.at[t] = "idle") => nraised = ninv - 1

\* C39: a send whose effective timeout is the number 0, and that got its
\* command id, is synchronized: it has written its begin token and enqueued a
\* read request, and it ends by returning the output or by a timeout or
\* command error.
C39_ZeroTimeoutStillSynchronized ==
    \A t \in Threads :
        (/\ Finished(t) /\ IsSend(t)
         /\ call[t].timeout = 0
         /\ call[t].cmd_id >= 0) =>
            /\ BeginOnWire(t) > 0
            /\ call[t].fut # 0
            /\ ret[t].kind \in {"return", "GnuplotTimeoutError", "GnuplotError"}

\* The token is a whole line of b at 0-based offset i: it starts the buffer or
\* follows a line end, and a line end follows it
WholeLineAt(b, token, i) ==
    /\ OccursAt(b, token \o <<NL>>, i)
    /\ i = 0 \/ b[i] = NL

\* C32: a read that is complete has the done token as a whole line at the end
\* of its buffer, and the begin token it has located is a whole line too.
C32_TokensMatchedAsWholeLines ==
    (wpc = "return" /\ ~futures[wreq.fut].abort) =>
        /\ WholeLineAt(buff, wreq.done, Len(buff) - Len(wreq.done) - 1)
        /\ Find(buff, wreq.begin \o <<NL>>) > -1 =>
               WholeLineAt(buff, wreq.begin, Find(buff, wreq.begin \o <<NL>>))

\* C31: no call of terminate raises: neither one that finds the input stream
\* closed by an earlier call, nor one that finds the subprocess exited while
\* variables or functions are still defined.
C31_ShutdownErrorsIgnored ==
    \A i \in 1..Len(outcomes) : outcomes[i] = "return"

====
